---- MODULE Spec2Model ----
(***************************************************************************)
(* Model of the gxserial transport (GXSerial): the Open/Close life cycle,  *)
(* the background reader goroutine, the routing of received chunks and the *)
(* three platform ports (linux, darwin, windows).                          *)
(*                                                                         *)
(* Caller goroutines are the elements of Threads, reader goroutines the    *)
(* elements of Readers (the slots a "go g.reader()" can occupy).  g.mu is  *)
(* modelled by its write holder: every RLock/RUnlock pair and every        *)
(* Lock/Unlock pair of the source that brackets a single field access is   *)
(* one atomic step guarded by mu = "free"; Open and Close keep the lock    *)
(* over several steps.                                                     *)
(***************************************************************************)
EXTENDS Integers, Sequences, FiniteSets, TLC

\* ---------------------------------------------------------------- bounds
\* Number of data chunks the device delivers in one behaviour.
MaxRx == 1

\* Number of bursts the device queues in one behaviour of the burst runs.
MaxBursts == 2

\* Largest length the synchronous buffer reaches in the buffer runs.
MaxBuf == 3

\* Number of bytes the reader appends in one behaviour of the Receive runs.
MaxAppended == 3

\* Number of Send calls in one behaviour of the counter runs.
MaxSends == 2

\* ------------------------------------------------------------ finite sets
Threads == {"t1", "t2"}
Readers == {"r1", "r2"}
Platforms == {"linux", "darwin", "windows"}
HandlerKinds == {"state", "error", "trace", "recv"}
\* Arguments of Append in the buffer runs.
Pieces == {<<1>>, <<2>>, <<1, 2>>, <<2, 1>>}
\* Arguments of Receive: a nil EOP has no bytes.
ReceiveArgs ==
    {a \in [hasEop : BOOLEAN, eop : {<<>>, <<1, 2>>}, count : {0, 2},
            allData : BOOLEAN, wait : BOOLEAN] : a.hasEop <=> a.eop # <<>>}

VARIABLES
    platform,      \* build target: which port implementation is compiled in
    s,             \* g.s, the platform port struct
    os,            \* operating-system resources held: device, pipe, events
    mu,            \* g.mu: "free" or the goroutine holding the write lock
    wg,            \* g.wg counter
    cfg,           \* baudRate, dataBits, stopBits, parity
    synchronous,   \* g.synchronous
    handlers,      \* the handler kinds that are registered (non-nil)
    traceLevel,    \* g.traceLevel
    received,      \* g.received.buf, the synchronous buffer
    receivedSize,  \* g.receivedSize
    bytesReceived, \* g.bytesReceived
    rxLog,         \* bytes passed to the receive handler, in order
    rxUsed,        \* number of data chunks the device delivered so far
    tpc,           \* position of each caller goroutine
    rpc,           \* position of each reader goroutine ("none": not running)
    rres,          \* result of the reader's last g.s.read()
    routed,        \* per reader: where its last chunk was routed
    call,          \* the last Open()/Close() call: entry state, events, result
    lastSet,       \* the last configuration setter call and its result
    stateSeq,      \* the last two values delivered to the state handler
    readerErr,     \* last error a reader passed to the error handler
    stream,        \* bytes the port took from the device, bytes delivered
    srch,          \* the Search call on the synchronous buffer
    taken,         \* the slices the last two Get calls returned
    rcv,           \* the Receive call
    bytesSent,     \* g.bytesSent
    regs,          \* per goroutine: the counter value it loaded, its payload
    tally,         \* what the byte counters should say
    bracket,       \* the release function of GetSynchronous: "none", "held"
    eop,           \* g.eop as bytes (none: nil)
    reg,           \* the handler in each registration and what readers see
    disp           \* the last handler a reader goroutine dispatched to

vars == <<platform, s, os, mu, wg, cfg, synchronous, handlers, traceLevel,
          received, receivedSize, bytesReceived, rxLog, rxUsed, tpc, rpc,
          rres, routed, call, lastSet, stateSeq, readerErr, stream, srch,
          taken, rcv, bytesSent, regs, tally, bracket, eop, reg, disp>>

\* ------------------------------------------------------------------ port
\* The zero value of the port struct.  f: device file / handle is set;
\* pipe: the r/w cancellation pipe ("nil", "open", or "closed": closed files
\* still referenced); closing, ovRead, ovWrite: the windows event handles;
\* signaled: the closing event is set.
ZeroPort ==
    [f |-> FALSE, pipe |-> "nil", closing |-> FALSE, signaled |-> FALSE,
     ovRead |-> FALSE, ovWrite |-> FALSE]

NoRes == [dev |-> 0, pipe |-> 0, evt |-> 0]

IsOpen(p) == p.f

\* g.stop is made in NewGXSerial and no statement closes it or sets it nil.
StopClosed == FALSE

\* Operating-system resources released when close() runs on port p.
Released(p) ==
    [dev  |-> IF p.f THEN 1 ELSE 0,
     pipe |-> IF p.pipe = "open" THEN 1 ELSE 0,
     evt  |-> (IF p.closing THEN 1 ELSE 0) + (IF p.ovRead THEN 1 ELSE 0)
              + (IF p.ovWrite THEN 1 ELSE 0)]

Minus(o, d) ==
    [dev |-> o.dev - d.dev, pipe |-> o.pipe - d.pipe, evt |-> o.evt - d.evt]

Plus(o, d) ==
    [dev |-> o.dev + d.dev, pipe |-> o.pipe + d.pipe, evt |-> o.evt + d.evt]

\* port.close() on windows up to the release of the device handle: the
\* closing event is set, pending I/O cancelled, the two I/O events and the
\* handle closed and zeroed.  The closing handle itself is still non-zero.
WindowsCloseBegin(p) ==
    [p EXCEPT !.signaled = p.closing, !.ovRead = FALSE, !.ovWrite = FALSE,
              !.f = FALSE]

\* The last statement of port.close() on windows: CloseHandle(p.closing).
WindowsCloseEnd(p) == [p EXCEPT !.closing = FALSE, !.signaled = FALSE]

WindowsClose(p) == WindowsCloseEnd(WindowsCloseBegin(p))

\* The port kept as it is by a close() that returns at its first step.
PortKept(plat, p) == p

\* port.close().  linux: r and w are closed but stay non-nil, f becomes
\* nil.  darwin: r, w and f are closed and set to nil.
PortClose(plat, p) ==
    CASE plat = "linux" ->
           [p EXCEPT !.pipe = IF @ = "nil" THEN "nil" ELSE "closed",
                     !.f = FALSE]
      [] plat = "darwin" -> [p EXCEPT !.pipe = "nil", !.f = FALSE]
      [] plat = "windows" -> WindowsClose(p)

\* --------------------------------------------------------------- openPort
LinuxSteps ==
    <<"open", "tcgets", "databits", "stopbits", "parity", "tcsets",
      "tcflush", "pipe">>

WindowsSteps ==
    <<"name", "event_closing", "createfile", "event_read", "event_write",
      "reset_event", "settings", "purge">>

OpenSteps(plat) == IF plat = "windows" THEN WindowsSteps ELSE LinuxSteps

\* Steps that fail because of the configuration c.  On darwin hasCMSPAR is
\* false, so mark and space parity are refused; on windows updateSettings
\* refuses stop bits other than one and two.
CfgFails(plat, step, c) ==
    \/ plat # "windows" /\ step = "databits" /\ c.dataBits \notin 5..8
    \/ plat # "windows" /\ step = "stopbits" /\ c.stopBits \notin {1, 2}
    \/ plat = "darwin" /\ step = "parity" /\ c.parity \in {"Mark", "Space"}
    \/ plat # "windows" /\ step = "parity"
         /\ c.parity \notin {"None", "Odd", "Even", "Mark", "Space"}
    \/ plat = "windows" /\ step = "settings" /\ c.stopBits \notin {1, 2}

\* The steps at which openPort can return an error: an operating-system
\* step, or the first configuration check the configuration fails.
OpenFailures(plat, c) ==
    LET st == OpenSteps(plat)
        OsSteps ==
            {"open", "tcgets", "tcsets", "tcflush", "pipe", "event_closing",
             "createfile", "event_read", "event_write", "reset_event",
             "settings", "purge"}
    IN
    {st[i] : i \in {k \in 1..Len(st) :
                      /\ st[k] \in OsSteps \/ CfgFails(plat, st[k], c)
                      /\ \A j \in 1..(k - 1) : ~CfgFails(plat, st[j], c)}}

OpenCanSucceed(plat, c) ==
    \A i \in 1..Len(OpenSteps(plat)) : ~CfgFails(plat, OpenSteps(plat)[i], c)

\* cfg.s after openPort returned an error at step.  linux returns from a
\* failed TCFLSH without closing the port; every other failure after the
\* device was opened calls cfg.s.close().
PortAfterFailure(plat, step, p) ==
    CASE step \in {"open", "name"} -> p
      [] plat = "linux" /\ step = "tcflush" -> [ZeroPort EXCEPT !.f = TRUE]
      [] OTHER -> ZeroPort

\* Resources openPort still holds after the failure at step.
HeldAfterFailure(plat, step) ==
    IF plat = "linux" /\ step = "tcflush"
    THEN [dev |-> 1, pipe |-> 0, evt |-> 0]
    ELSE NoRes

\* openPort returning without the wake pipe (windows: without the events).
PortWithoutPipe(plat) == [ZeroPort EXCEPT !.f = TRUE]

\* cfg.s after a successful openPort.
PortAfterOpen(plat) ==
    IF plat = "windows"
    THEN [ZeroPort EXCEPT !.f = TRUE, !.closing = TRUE, !.ovRead = TRUE,
                          !.ovWrite = TRUE]
    ELSE [ZeroPort EXCEPT !.f = TRUE, !.pipe = "open"]

\* -------------------------------------------------------------- dispatch
\* gxcommon.TraceTypes values as compared with the trace level.
TraceTypeValue(type) ==
    CASE type = "Sent"     -> 1
      [] type = "Received" -> 2
      [] type = "Error"    -> 4
      [] type = "Warning"  -> 8
      [] type = "Info"     -> 16

\* A filter that passes the types whose value is not below the level.
TraceEvAscending(type, msg) ==
    IF "trace" \in handlers /\ ~(TraceTypeValue(type) < traceLevel)
    THEN {<<"trace", msg>>}
    ELSE {}

\* trace / tracef: the handler is called when it is registered and the
\* trace level is not below the type.
TraceEv(type, msg) ==
    IF "trace" \in handlers /\ ~(traceLevel < TraceTypeValue(type))
    THEN {<<"trace", msg>>}
    ELSE {}

\* statef: the state handler is called when it is registered.
StateEv(st) == IF "state" \in handlers THEN {<<"state", st>>} ELSE {}

\* errorf: the error handler is called when it is registered.
ErrorEv(err) == IF "error" \in handlers THEN {<<"error", err>>} ELSE {}

\* The window of the last two delivered state values after statef(st).
Deliver(seq, st) ==
    IF "state" \in handlers THEN [prev |-> seq.last, last |-> st] ELSE seq

NoCall ==
    [op |-> "none", by |-> "none", wasOpen |-> FALSE, readers |-> 0,
     ev |-> {}, ret |-> "none", hw |-> 0, spawned |-> 0,
     closeErr |-> FALSE]


\* ----------------------------------------------------- initial conditions
\* NewGXSerial("COM1", BaudRate9600, 8, ParityNone, StopBitsOne)
DefaultCfg ==
    [baudRate |-> 9600, dataBits |-> 8, stopBits |-> 1, parity |-> "None"]

\* Constructor arguments and setter values of the configuration runs.
BaudRates == {9600}
DataBitsValues == {8, 9}
StopBitsValues == {1, 3}
Parities == {"None", "Mark"}
NoRoute == [chunk |-> <<>>, sync |-> FALSE, dest |-> {}]
NoResult == [kind |-> "none", data |-> <<>>, err |-> "none"]
NoSet ==
    [field |-> "none", ret |-> "none", ev |-> {}, wasOpen |-> FALSE,
     old |-> "none"]

\* No byte was taken from the device and none was delivered.
NoStream == [read |-> <<>>, out |-> <<>>]

\* No Search call was made.  pattern, minLen, wait (maxWait > 0): the
\* arguments; lastStart: the cursor; woken: the wake token the searcher
\* took is closed; result: the value returned; seen, start: the buffer and
\* the offset of the last pass; timedOut: the timer fired; getRan: a Get
\* ran during the call; stale: a Get ran after it; passes: passes of the
\* loop made (counted up to 2); prior: the pattern and the cursor the
\* previous call ended with.
NoSearch ==
    [pc |-> "idle", pattern |-> <<>>, minLen |-> 0, wait |-> FALSE,
     lastStart |-> 0, woken |-> FALSE, result |-> -1, seen |-> <<>>,
     start |-> -1, timedOut |-> FALSE, getRan |-> FALSE, stale |-> FALSE,
     passes |-> 0, prior |-> [pattern |-> <<>>, cursor |-> 0]]

\* One Get call: its argument, the buffer before and after, the slice
\* returned.
NoGet == [count |-> 0, before |-> <<>>, ret |-> <<>>, after |-> <<>>]

\* No Get call was made.  g1, g2: the last two Get calls; adjacent: no
\* Append ran between them; fresh: no Append ran since g2; land: the index
\* in g2.ret the next appended byte is written to (-1: g2.ret shares no
\* storage with the free part of the buffer).
NoSlices ==
    [g1 |-> NoGet, g2 |-> NoGet, adjacent |-> FALSE, fresh |-> FALSE,
     land |-> -1, gets |-> 0]

\* No Receive call was made.  hasEop, eop, count, allData, wait: the
\* arguments (args.EOP non-nil, its bytes, args.Count, args.AllData,
\* args.WaitTime > 0); matched, err, reply: the results; before, size: the
\* buffer and g.receivedSize when the call was made; expect, rest: at the
\* Get, the bytes up to the end of the first terminator and the bytes
\* behind them; after: the buffer the Get left.
NoReceive ==
    [pc |-> "idle", hasEop |-> FALSE, eop |-> <<>>, count |-> 0,
     allData |-> FALSE, wait |-> FALSE, matched |-> FALSE, err |-> "none",
     reply |-> <<>>, before |-> <<>>, size |-> 0, expect |-> <<>>,
     rest |-> <<>>, after |-> <<>>]

\* A goroutine is not inside a "+=" of a counter.  load: the value of the
\* counter it read; len: the number of bytes it adds.
NoRegs == [load |-> 0, len |-> 0]

\* Nothing was sent or counted.  sends: Send calls made; written: bytes the
\* port wrote for Send since the last reset; added: bytes Send added to
\* the counter; after: bytes of the chunks whose count began after the
\* last reset of the received counter; straddle: bytes of the chunks
\* whose count began before that reset and ended after it; resets: a
\* reset ran; overlap: two accesses of a counter overlapped since the
\* last reset.
NoTally ==
    [sends |-> 0, written |-> 0, added |-> 0, after |-> 0, straddle |-> 0,
     resets |-> FALSE, overlap |-> FALSE]

\* The registrations when the application has registered the handler h1
\* for each kind in hs and none for the others.  cur: the field (onState,
\* onErr, onTrace, onReceive); stale: per reader goroutine, a value written
\* before the current one that a read of the field made without g.mu can
\* still return.
Registered(hs) ==
    LET f == [k \in HandlerKinds |-> IF k \in hs THEN "h1" ELSE "nil"]
    IN [cur |-> f, stale |-> [r \in Readers |-> f]]

\* No reader goroutine has dispatched to the error or the receive handler.
\* kind: the handler kind; h: the handler the reader read and called (nil:
\* none); cur: the registration at that time.
NoDispatch == [kind |-> "none", h |-> "nil", cur |-> "nil"]

\* The transport after NewGXSerial, with the handlers and the trace level
\* the application registered before it uses the transport.
InitCommon ==
    /\ platform \in Platforms
    /\ s = ZeroPort
    /\ os = NoRes
    /\ mu = "free"
    /\ wg = 0
    /\ synchronous = FALSE
    /\ handlers \in {{}, HandlerKinds}
    /\ traceLevel \in {0, 16}
    /\ received = <<>>
    /\ receivedSize = 0
    /\ bytesReceived = 0
    /\ rxLog = <<>>
    /\ rxUsed = 0
    /\ tpc = [t \in Threads |-> "idle"]
    /\ rpc = [r \in Readers |-> "none"]
    /\ rres = [r \in Readers |-> NoResult]
    /\ routed = [r \in Readers |-> NoRoute]
    /\ call = NoCall
    /\ lastSet = NoSet
    /\ stateSeq = [prev |-> "None", last |-> "None"]
    /\ readerErr = "none"
    /\ stream = NoStream
    /\ srch = NoSearch
    /\ taken = NoSlices
    /\ rcv = NoReceive
    /\ bytesSent = 0
    /\ regs = [g \in Threads \cup Readers |-> NoRegs]
    /\ tally = NoTally
    /\ bracket = "none"
    /\ eop = <<>>
    /\ reg = Registered(handlers)
    /\ disp = NoDispatch

Init == InitCommon /\ cfg = DefaultCfg

\* Every handler is registered and every trace type passes the level.
InitCfg ==
    /\ InitCommon
    /\ handlers = HandlerKinds
    /\ traceLevel = 16
    /\ cfg \in [baudRate : BaudRates, dataBits : DataBitsValues,
                stopBits : StopBitsValues, parity : Parities]

\* The reader r has taken g.mu, or is started by "go g.reader()": its
\* reads see every registration written before.
Synced(r) == [reg EXCEPT !.stale[r] = reg.cur]

\* What a read of the registration k made by the reader r without g.mu
\* can return.
Visible(r, k) == {reg.cur[k], reg.stale[r][k]}

\* The reader read the registration k and called the handler h it found.
Dispatch(k, h) == [kind |-> k, h |-> h, cur |-> reg.cur[k]]

\* ------------------------------------------------------------------ Open
portVars == <<s, os>>
dataVars == <<received, receivedSize, bytesReceived, rxLog, rxUsed>>
readerVars == <<rpc, rres, routed, readerErr>>
setupVars == <<platform, cfg, handlers, traceLevel, eop>>
syncVars == <<srch, taken, rcv>>
countVars == <<bytesSent, regs, tally>>
regVars == <<reg, disp>>

\* Open() without the check of g.s.isOpen().
AlreadyOpenUnchecked == FALSE

\* Open(): the check "if g.s.isOpen()" made under the lock.
AlreadyOpen == IsOpen(s)

\* Open() up to the call of openPort: g.mu.Lock(); if g.s.isOpen() return
\* nil (the deferred Unlock runs); otherwise statef(Opening) and the
\* "connecting" trace, the lock stays held.
Open(t) ==
    /\ tpc[t] = "idle"
    /\ mu = "free"
    /\ IF AlreadyOpen
       THEN /\ call' = [NoCall EXCEPT !.op = "Open", !.by = t,
                                      !.wasOpen = TRUE, !.readers = wg,
                                      !.ret = "nil"]
            /\ UNCHANGED <<mu, tpc, stateSeq>>
       ELSE /\ mu' = t
            /\ tpc' = [tpc EXCEPT ![t] = "open_port"]
            /\ stateSeq' = Deliver(stateSeq, "Opening")
            /\ call' = [NoCall EXCEPT !.op = "Open", !.by = t,
                                      !.wasOpen = IsOpen(s),
                                      !.readers = wg, !.ret = "pending",
                                      !.ev = StateEv("Opening")
                                             \cup TraceEv("Info", "connecting_to")]
    /\ UNCHANGED <<portVars, wg, synchronous, bracket, dataVars, readerVars,
                   setupVars, countVars, regVars, syncVars, stream, lastSet>>

\* The slot the new reader goroutine takes.
FreeReader == CHOOSE r \in Readers : rpc[r] = "none"

\* Open(): openPort returned the error of step; trace, errorf, return err.
OpenFail(t, step) ==
    /\ tpc[t] = "open_port"
    /\ step \in OpenFailures(platform, cfg)
    /\ s' = PortAfterFailure(platform, step, s)
    /\ os' = Plus(os, HeldAfterFailure(platform, step))
    /\ call' = [call EXCEPT !.hw = @ + 1, !.ret = step,
                            !.ev = @ \cup TraceEv("Error", "connect_failed")
                                     \cup ErrorEv(step)]
    /\ mu' = "free"
    /\ tpc' = [tpc EXCEPT ![t] = "idle"]
    /\ UNCHANGED <<wg, synchronous, bracket, dataVars, readerVars, setupVars,
                   countVars, regVars, syncVars, stream, lastSet, stateSeq>>

\* Open(): openPort succeeded; g.wg.Add(1); go g.reader(); the "connected"
\* trace; statef(Open); return nil.
OpenDone(t) ==
    /\ tpc[t] = "open_port"
    /\ OpenCanSucceed(platform, cfg)
    /\ \E r \in Readers : rpc[r] = "none"
    /\ s' = PortAfterOpen(platform)
    /\ os' = Plus(os, Released(PortAfterOpen(platform)))
    /\ wg' = wg + 1
    /\ rpc' = [rpc EXCEPT ![FreeReader] = "read"]
    /\ reg' = Synced(FreeReader)
    /\ stateSeq' = Deliver(stateSeq, "Open")
    /\ call' = [call EXCEPT !.hw = @ + 1, !.spawned = @ + 1, !.ret = "nil",
                            !.ev = @ \cup TraceEv("Info", "connected_to")
                                     \cup StateEv("Open")]
    /\ mu' = "free"
    /\ tpc' = [tpc EXCEPT ![t] = "idle"]
    /\ UNCHANGED <<synchronous, bracket, dataVars, rres, routed, readerErr,
                   setupVars, countVars, disp, syncVars, stream, lastSet>>

\* ----------------------------------------------------------------- Close
\* Close() up to the call of g.s.close(): g.mu.Lock(); the select takes the
\* default branch unless g.stop is closed; if the port is open the
\* "closing" trace and statef(Closing).
Close(t) ==
    /\ tpc[t] = "idle"
    /\ mu = "free"
    /\ mu' = t
    /\ IF StopClosed
       THEN /\ tpc' = [tpc EXCEPT ![t] = "close_wait"]
            /\ call' = [NoCall EXCEPT !.op = "Close", !.by = t,
                                      !.wasOpen = IsOpen(s), !.readers = wg,
                                      !.ret = "pending"]
            /\ UNCHANGED stateSeq
       ELSE /\ tpc' = [tpc EXCEPT ![t] = "close_port"]
            /\ stateSeq' = IF IsOpen(s) THEN Deliver(stateSeq, "Closing")
                           ELSE stateSeq
            /\ call' = [NoCall EXCEPT !.op = "Close", !.by = t,
                                      !.wasOpen = IsOpen(s), !.readers = wg,
                                      !.ret = "pending",
                                      !.ev = IF IsOpen(s)
                                             THEN TraceEv("Info", "closing_connection")
                                                  \cup StateEv("Closing")
                                             ELSE {}]
    /\ UNCHANGED <<portVars, wg, synchronous, bracket, dataVars, readerVars,
                   setupVars, countVars, regVars, syncVars, stream, lastSet>>

\* g.s.close(), on windows up to the release of the device handle.  failed:
\* a Close or CloseHandle call of the operating system returned an error;
\* the fields of the port are cleared all the same and Close() discards
\* the error ("_ = g.s.close()").
ClosePort(t, failed) ==
    /\ tpc[t] = "close_port"
    /\ call' = [call EXCEPT !.closeErr = failed]
    /\ LET p == IF platform = "windows" THEN WindowsCloseBegin(s)
                ELSE PortClose(platform, s)
       IN /\ s' = p
          /\ os' = Minus(os, Minus(Released(s), Released(p)))
    /\ tpc' = [tpc EXCEPT ![t] = "close_fin"]
    /\ UNCHANGED <<mu, wg, synchronous, bracket, dataVars, readerVars,
                   setupVars, countVars, regVars, syncVars, stream, lastSet,
                   stateSeq>>

\* The end of g.s.close() (windows: CloseHandle(p.closing)), then the
\* "closed" trace and statef(Closed).
CloseFinish(t) ==
    /\ tpc[t] = "close_fin"
    /\ LET p == IF platform = "windows" THEN WindowsCloseEnd(s) ELSE s
       IN /\ s' = p
          /\ os' = Minus(os, Minus(Released(s), Released(p)))
    /\ stateSeq' = Deliver(stateSeq, "Closed")
    /\ call' = [call EXCEPT !.ev = @ \cup TraceEv("Info", "connection_closed")
                                     \cup StateEv("Closed")]
    /\ tpc' = [tpc EXCEPT ![t] = "close_wait"]
    /\ UNCHANGED <<mu, wg, synchronous, bracket, dataVars, readerVars,
                   setupVars, countVars, regVars, syncVars, stream, lastSet>>

\* Close() without g.wg.Wait().
ReadersNotAwaited == TRUE

\* g.wg.Wait() returns when the counter is zero.
ReadersJoined == wg = 0

\* Close(): g.wg.Wait(); return err (nil); the deferred Unlock.
CloseWait(t) ==
    /\ tpc[t] = "close_wait"
    /\ ReadersJoined
    /\ mu' = "free"
    /\ tpc' = [tpc EXCEPT ![t] = "idle"]
    /\ call' = [call EXCEPT !.ret = "nil"]
    /\ UNCHANGED <<portVars, wg, synchronous, bracket, dataVars, readerVars,
                   setupVars, countVars, regVars, syncVars, stream, lastSet,
                   stateSeq>>

\* -------------------------------------------------- synchronous bracket
\* GetSynchronous(): Lock; g.synchronous = true; Unlock; the release
\* function is returned.  One synchronous exchange is made at a time: the
\* caller holds no release function it has not invoked.
GetSynchronous(t) ==
    /\ tpc[t] = "idle"
    /\ mu = "free"
    /\ bracket = "none"
    /\ synchronous' = TRUE
    /\ bracket' = "held"
    /\ UNCHANGED <<portVars, mu, wg, dataVars, readerVars, setupVars,
                   countVars, regVars, syncVars, stream, tpc, call, lastSet,
                   stateSeq>>

\* The release function leaving the flag set.
ModeKept == TRUE

\* The value the release function assigns: g.synchronous = false.
ModeAfterRelease == FALSE

\* The function GetSynchronous returned, invoked once: Lock;
\* g.synchronous = false; Unlock.
ReleaseSynchronous(t) ==
    /\ tpc[t] = "idle"
    /\ mu = "free"
    /\ bracket = "held"
    /\ synchronous' = ModeAfterRelease
    /\ bracket' = "none"
    /\ UNCHANGED <<portVars, mu, wg, dataVars, readerVars, setupVars,
                   countVars, regVars, syncVars, stream, tpc, call, lastSet,
                   stateSeq>>


\* ---------------------------------------------------- synchronous buffer
Max(a, b) == IF a > b THEN a ELSE b

Min(a, b) == IF a < b THEN a ELSE b

\* The offsets i at which b[i : i+len(p)] equals p.
Matches(b, p) ==
    {i \in 0..(Len(b) - Len(p)) : SubSeq(b, i + 1, i + Len(p)) = p}

\* bytes.LastIndex in the place of bytes.Index.
LastIndex(b, p) ==
    IF Matches(b, p) = {} THEN -1
    ELSE CHOOSE i \in Matches(b, p) : \A j \in Matches(b, p) : i >= j

\* bytes.Index(b, p): the least offset at which p occurs in b, or -1.
Index(b, p) ==
    IF Matches(b, p) = {} THEN -1
    ELSE CHOOSE i \in Matches(b, p) : \A j \in Matches(b, p) : i <= j

\* The offset immediately after the first occurrence of p in b, -1 if
\* p does not occur in b.
FirstEnd(b, p) == IF Matches(b, p) = {} THEN -1 ELSE Index(b, p) + Len(p)

\* Search keeping no trailing bytes of the buffer for the next pass.
NoOverlap(p) == 0

\* Search: overlap := len(pattern) - 1, not below 0.
Overlap(p) == Max(Len(p) - 1, 0)

\* Append leaving the old wake token open.
NotWoken(sr) == sr

\* Append: close(old) releases a searcher that took the old wake token.
Woken(sr) == IF sr.pc = "wait" THEN [sr EXCEPT !.woken = TRUE] ELSE sr

\* Whether append(b.buf, p...) writes into the array of b.buf (TRUE) or
\* into a new one.  Get(-1) and Get(len) leave b.buf = b.buf[:0] on the
\* array of the slice they returned; its capacity is at least the length
\* of that slice, and how much larger is the runtime's choice.
Fits(sl, p) ==
    IF sl.land < 0 THEN {FALSE}
    ELSE IF sl.land + Len(p) <= Len(sl.g2.ret) THEN {TRUE}
    ELSE BOOLEAN

\* The slices Get returned after append(b.buf, p...): the bytes of p are
\* written over the slice that shares the array, from index land on.
Overwrite(sl, p, fits) ==
    IF sl.land < 0 THEN [sl EXCEPT !.fresh = FALSE]
    ELSE IF ~fits THEN [sl EXCEPT !.fresh = FALSE, !.land = -1]
    ELSE [sl EXCEPT
            !.fresh = FALSE,
            !.land = IF sl.land + Len(p) >= Len(sl.g2.ret) THEN -1
                     ELSE sl.land + Len(p),
            !.g2.ret = [i \in 1..Len(sl.g2.ret) |->
                          IF i > sl.land /\ i <= sl.land + Len(p)
                          THEN p[i - sl.land]
                          ELSE sl.g2.ret[i]]]

\* synchronousMediaBase.Append(p): an empty p returns at once; otherwise
\* under b.mu the bytes are appended and the wake token replaced; then the
\* old token is closed.
AppendTo(p, fits) ==
    IF p = <<>> THEN UNCHANGED <<received, srch, taken>>
    ELSE /\ received' = received \o p
         /\ srch' = Woken(srch)
         /\ taken' = Overwrite(taken, p, fits)

\* ---------------------------------------------------------------- reader
threadVars == <<tpc, call, lastSet, stateSeq>>

Result(kind, data, err) == [kind |-> kind, data |-> data, err |-> err]

\* The reader calls g.s.read().  linux, darwin: ensureOpen and the nil check
\* of p.r return an error, otherwise the goroutine blocks in poll.  windows:
\* a zero closing handle returns (nil, nil), a zero device handle an error,
\* otherwise the goroutine issues the overlapped read and waits.
ReadEnter(r) ==
    /\ rpc[r] = "read"
    /\ IF platform = "windows"
       THEN IF ~s.closing
            THEN /\ rres' = [rres EXCEPT ![r] = Result("empty", <<>>, "none")]
                 /\ rpc' = [rpc EXCEPT ![r] = "got"]
            ELSE IF ~IsOpen(s)
            THEN /\ rres' = [rres EXCEPT ![r] = Result("err", <<>>, "not_open")]
                 /\ rpc' = [rpc EXCEPT ![r] = "got"]
            ELSE /\ rpc' = [rpc EXCEPT ![r] = "wait"]
                 /\ UNCHANGED rres
       ELSE IF ~IsOpen(s)
            THEN /\ rres' = [rres EXCEPT ![r] = Result("err", <<>>, "not_open")]
                 /\ rpc' = [rpc EXCEPT ![r] = "got"]
            ELSE IF s.pipe = "nil"
            THEN /\ rres' = [rres EXCEPT ![r] = Result("err", <<>>, "no_pipe")]
                 /\ rpc' = [rpc EXCEPT ![r] = "got"]
            ELSE /\ rpc' = [rpc EXCEPT ![r] = "wait"]
                 /\ UNCHANGED rres
    /\ UNCHANGED <<portVars, mu, wg, synchronous, bracket, dataVars, routed,
                   readerErr, setupVars, countVars, regVars, syncVars, stream,
                   threadVars>>

\* The blocked read returns a chunk the device delivered.
ReadData(r, c) ==
    /\ rpc[r] = "wait"
    /\ IsOpen(s)
    /\ rxUsed < MaxRx
    /\ rxUsed' = rxUsed + 1
    /\ rres' = [rres EXCEPT ![r] = Result("data", c, "none")]
    /\ rpc' = [rpc EXCEPT ![r] = "got"]
    /\ stream' = [stream EXCEPT !.read = @ \o c]
    /\ UNCHANGED <<portVars, mu, wg, synchronous, bracket, received,
                   receivedSize, bytesReceived, rxLog, routed, readerErr,
                   setupVars, countVars, regVars, syncVars, threadVars>>

\* The blocked read fails on the device (poll, Read, ReadFile or
\* GetOverlappedResult return an error); the port stays as it is.
ReadError(r) ==
    /\ rpc[r] = "wait"
    /\ IsOpen(s)
    /\ rres' = [rres EXCEPT ![r] = Result("err", <<>>, "device")]
    /\ rpc' = [rpc EXCEPT ![r] = "got"]
    /\ UNCHANGED <<portVars, mu, wg, synchronous, bracket, dataVars, routed,
                   readerErr, setupVars, countVars, regVars, syncVars, stream,
                   threadVars>>

\* windows: ClearCommError fails inside getBytesToRead, which closes the
\* port itself (on the reader goroutine, without g.mu) and returns the error.
ReadFault(r) ==
    /\ rpc[r] = "wait"
    /\ platform = "windows"
    /\ IsOpen(s)
    /\ s' = WindowsClose(s)
    /\ os' = Minus(os, Released(s))
    /\ rres' = [rres EXCEPT ![r] = Result("err", <<>>, "bytes_to_read")]
    /\ rpc' = [rpc EXCEPT ![r] = "got"]
    /\ UNCHANGED <<mu, wg, synchronous, bracket, dataVars, routed, readerErr,
                   setupVars, countVars, regVars, syncVars, stream,
                   threadVars>>

\* The port was closed under the blocked read.  linux, darwin: poll returns
\* without POLLIN on the pipe (nothing is ever written to it) and the read
\* of the nil or closed file returns an error.  windows: the closing event
\* or the aborted operation makes read return (nil, nil).
ReadCancel(r) ==
    /\ rpc[r] = "wait"
    /\ ~IsOpen(s)
    /\ rres' = [rres EXCEPT ![r] =
                  IF platform = "windows" THEN Result("empty", <<>>, "none")
                  ELSE Result("err", <<>>, "closed")]
    /\ rpc' = [rpc EXCEPT ![r] = "got"]
    /\ UNCHANGED <<portVars, mu, wg, synchronous, bracket, dataVars, routed,
                   readerErr, setupVars, countVars, regVars, syncVars, stream,
                   threadVars>>

\* The reader going on with the next read after an error.
ErrorLoops == "read"

\* reader(): after the error was reported the function returns.
AfterError == "none"

\* reader(): the read returned an error; g.stop is never nil, so the error
\* is traced and passed to errorf (both with lock = false: g.onErr is read
\* without g.mu and called if it is not nil); the goroutine returns and the
\* deferred g.wg.Done() runs.
ReaderFail(r) ==
    /\ rpc[r] = "got"
    /\ rres[r].kind = "err"
    /\ \E h \in Visible(r, "error") :
          /\ disp' = Dispatch("error", h)
          /\ readerErr' = IF h # "nil" THEN rres[r].err ELSE readerErr
    /\ rpc' = [rpc EXCEPT ![r] = AfterError]
    /\ rres' = [rres EXCEPT ![r] = NoResult]
    /\ wg' = IF AfterError = "none" THEN wg - 1 ELSE wg
    /\ UNCHANGED <<portVars, mu, synchronous, bracket, dataVars, routed,
                   setupVars, countVars, reg, syncVars, stream, threadVars>>

\* reader(): an empty result; the select finds g.stop open and takes the
\* default branch, the loop calls read again.
ReaderEmpty(r) ==
    /\ rpc[r] = "got"
    /\ rres[r].kind = "empty"
    /\ IF StopClosed
       THEN /\ rpc' = [rpc EXCEPT ![r] = "none"]
            /\ wg' = wg - 1
       ELSE /\ rpc' = [rpc EXCEPT ![r] = "read"]
            /\ UNCHANGED wg
    /\ rres' = [rres EXCEPT ![r] = NoResult]
    /\ UNCHANGED <<portVars, mu, synchronous, bracket, dataVars, routed,
                   readerErr, setupVars, countVars, regVars, syncVars, stream,
                   threadVars>>

\* reader(): a non-empty result; g.bytesReceived += len(ret); handleData.
ReaderData(r) ==
    /\ rpc[r] = "got"
    /\ rres[r].kind = "data"
    /\ bytesReceived' = bytesReceived + Len(rres[r].data)
    /\ routed' = [routed EXCEPT ![r] = NoRoute]
    /\ rpc' = [rpc EXCEPT ![r] = "hd_trace"]
    /\ UNCHANGED <<portVars, mu, wg, synchronous, bracket, received,
                   receivedSize, rxLog, rxUsed, rres, readerErr, setupVars,
                   countVars, regVars, syncVars, stream, threadVars>>

\* handleData: tracef(true, Received, ...) takes the read lock for the
\* level and the handler.
HandleTrace(r) ==
    /\ rpc[r] = "hd_trace"
    /\ mu = "free"
    /\ rpc' = [rpc EXCEPT ![r] = "route"]
    /\ reg' = Synced(r)
    /\ UNCHANGED <<portVars, mu, wg, synchronous, bracket, dataVars, rres,
                   routed, readerErr, setupVars, countVars, disp, syncVars,
                   stream, threadVars>>

\* handleData routing every chunk to receivef, whatever the mode.
SyncFlagIgnored == FALSE

\* handleData: the value g.synchronous has when it is read (without lock).
SyncFlag == synchronous

\* handleData: if g.synchronous, appendData appends the chunk to the
\* buffer (under the buffer's own lock); otherwise receivef is called.
Route(r) ==
    /\ rpc[r] = "route"
    /\ IF SyncFlag
       THEN /\ \E fits \in Fits(taken, rres[r].data) :
                 AppendTo(rres[r].data, fits)
            /\ stream' = [stream EXCEPT !.out = @ \o rres[r].data]
            /\ routed' = [routed EXCEPT ![r] =
                            [chunk |-> rres[r].data, sync |-> synchronous,
                             dest |-> {"buffer"}]]
            /\ rpc' = [rpc EXCEPT ![r] = "append_lock"]
       ELSE /\ routed' = [routed EXCEPT ![r] =
                            [chunk |-> rres[r].data, sync |-> synchronous,
                             dest |-> {}]]
            /\ rpc' = [rpc EXCEPT ![r] = "recv"]
            /\ UNCHANGED <<received, srch, taken, stream>>
    /\ UNCHANGED <<portVars, mu, wg, synchronous, bracket, receivedSize,
                   bytesReceived, rxLog, rxUsed, rres, readerErr, setupVars,
                   countVars, regVars, rcv, threadVars>>

\* receivef(true, data): the handler is read under the read lock and called
\* when registered; then the select takes the default branch.
Receivef(r) ==
    /\ rpc[r] = "recv"
    /\ mu = "free"
    /\ IF "recv" \in handlers
       THEN /\ rxLog' = rxLog \o rres[r].data
            /\ stream' = [stream EXCEPT !.out = @ \o rres[r].data]
            /\ routed' = [routed EXCEPT ![r].dest = @ \cup {"handler"}]
       ELSE UNCHANGED <<rxLog, routed, stream>>
    /\ reg' = Synced(r)
    /\ disp' = Dispatch("recv", reg.cur["recv"])
    /\ rpc' = [rpc EXCEPT ![r] = IF StopClosed THEN "none" ELSE "read"]
    /\ wg' = IF StopClosed THEN wg - 1 ELSE wg
    /\ rres' = [rres EXCEPT ![r] = NoResult]
    /\ UNCHANGED <<portVars, mu, synchronous, bracket, received, receivedSize,
                   bytesReceived, rxUsed, readerErr, setupVars, countVars,
                   syncVars, threadVars>>

\* appendData after the append: Lock; g.receivedSize += len(data); Unlock;
\* then the select takes the default branch.
AppendSize(r) ==
    /\ rpc[r] = "append_lock"
    /\ mu = "free"
    /\ receivedSize' = receivedSize + Len(rres[r].data)
    /\ rpc' = [rpc EXCEPT ![r] = IF StopClosed THEN "none" ELSE "read"]
    /\ wg' = IF StopClosed THEN wg - 1 ELSE wg
    /\ rres' = [rres EXCEPT ![r] = NoResult]
    /\ reg' = Synced(r)
    /\ UNCHANGED <<portVars, mu, synchronous, bracket, received, bytesReceived,
                   rxLog, rxUsed, routed, readerErr, setupVars, countVars,
                   disp, syncVars, stream, threadVars>>

\* ------------------------------------------------------- bursts in read
\* The next burst the device queued: one byte, numbered in arrival order.
Burst == <<rxUsed + 1>>

\* port.read(): the wait ended with data, p.f.Read (ReadFile and
\* GetOverlappedResult on windows) filled buf[:n] with the queued burst;
\* the function goes on to ask getBytesToRead whether more is queued.
ReadFirst(r) ==
    /\ rpc[r] = "wait"
    /\ IsOpen(s)
    /\ rxUsed < MaxBursts
    /\ stream' = [stream EXCEPT !.read = @ \o Burst]
    /\ rxUsed' = rxUsed + 1
    /\ rres' = [rres EXCEPT ![r] = Result("part", Burst, "none")]
    /\ rpc' = [rpc EXCEPT ![r] = "more"]
    /\ UNCHANGED <<portVars, mu, wg, synchronous, bracket, received,
                   receivedSize, bytesReceived, rxLog, routed, readerErr,
                   setupVars, countVars, regVars, syncVars, threadVars>>

\* port.read(): getBytesToRead reports 0 (on linux and darwin also when it
\* fails): return buf[:n], nil.
ReadDrained(r) ==
    /\ rpc[r] = "more"
    /\ rres' = [rres EXCEPT ![r].kind = "data"]
    /\ rpc' = [rpc EXCEPT ![r] = "got"]
    /\ UNCHANGED <<portVars, mu, wg, synchronous, bracket, dataVars, routed,
                   readerErr, setupVars, countVars, regVars, syncVars, stream,
                   threadVars>>

\* port.read(): more is queued and the nested p.read() took the next
\* burst: append(buf[:n], ret...).
ReadNested(r) ==
    /\ rpc[r] = "more"
    /\ IsOpen(s)
    /\ rxUsed < MaxBursts
    /\ stream' = [stream EXCEPT !.read = @ \o Burst]
    /\ rxUsed' = rxUsed + 1
    /\ rres' = [rres EXCEPT ![r].data = @ \o Burst]
    /\ UNCHANGED <<portVars, mu, wg, synchronous, bracket, received,
                   receivedSize, bytesReceived, rxLog, rpc, routed, readerErr,
                   setupVars, countVars, regVars, syncVars, threadVars>>

\* port.read(): more is queued and the nested p.read() returns an error
\* (the device fails, or the port was closed before its ensureOpen), or on
\* windows the second getBytesToRead fails: return nil, err.
ReadNestedFail(r) ==
    /\ rpc[r] = "more"
    /\ rres' = [rres EXCEPT ![r] = Result("err", <<>>, "device")]
    /\ rpc' = [rpc EXCEPT ![r] = "got"]
    /\ UNCHANGED <<portVars, mu, wg, synchronous, bracket, dataVars, routed,
                   readerErr, setupVars, countVars, regVars, syncVars, stream,
                   threadVars>>

\* port.read() on windows: the nested p.read() finds the port closing and
\* returns (nil, nil): append(buf[:n], nil...) is returned.
ReadNestedCancel(r) ==
    /\ rpc[r] = "more"
    /\ platform = "windows"
    /\ ~IsOpen(s)
    /\ rres' = [rres EXCEPT ![r].kind = "data"]
    /\ rpc' = [rpc EXCEPT ![r] = "got"]
    /\ UNCHANGED <<portVars, mu, wg, synchronous, bracket, dataVars, routed,
                   readerErr, setupVars, countVars, regVars, syncVars, stream,
                   threadVars>>

\* ------------------------------------------- Append, Get, Search (calls)
transportVars ==
    <<portVars, mu, wg, synchronous, bracket, receivedSize, bytesReceived,
      rxLog, rxUsed, readerVars, setupVars, threadVars, stream, countVars,
      regVars>>

\* Append(p) called on the buffer.
BufAppend(p) ==
    /\ Len(received) + Len(p) <= MaxBuf
    /\ \E fits \in Fits(taken, p) : AppendTo(p, fits)
    /\ UNCHANGED <<transportVars, rcv>>

\* Get leaving the last byte it returned in the buffer.
RestFromLast(b, n) == SubSeq(b, Max(n, 1), Len(b))

\* b.buf[:count]
First(b, n) == SubSeq(b, 1, n)

\* b.buf[count:]
Rest(b, n) == SubSeq(b, n + 1, Len(b))

\* Get(count) under b.mu: the slice returned and the buffer left.  After
\* the first branch b.buf[:0] stays on the array of the returned slice.
GetFrom(count) ==
    LET all == count = -1 \/ count = Len(received)
        ret == IF all THEN received ELSE First(received, count)
        rest == IF all THEN <<>> ELSE Rest(received, count)
    IN /\ received' = rest
       /\ taken' = [g1 |-> taken.g2,
                    g2 |-> [count |-> count, before |-> received,
                            ret |-> ret, after |-> rest],
                    adjacent |-> taken.fresh, fresh |-> TRUE,
                    land |-> IF all /\ ret # <<>> THEN 0 ELSE -1,
                    gets |-> Min(taken.gets + 1, 2)]
       /\ srch' = IF srch.pc \in {"scan", "wait"}
                  THEN [srch EXCEPT !.getRan = TRUE]
                  ELSE [srch EXCEPT !.stale = TRUE]

\* Get(count) called on the buffer.
Get(count) ==
    /\ rcv.pc = "idle"
    /\ count \in -1..Len(received)
    /\ GetFrom(count)
    /\ UNCHANGED <<transportVars, rcv>>

\* The call Search(pattern, minLen, maxWait) up to the first pass: minLen
\* below 0 is 0, lastStart := 0; w says maxWait > 0.
StartSearch(P, n, w) ==
    [NoSearch EXCEPT
       !.pc = "scan", !.pattern = P, !.minLen = Max(n, 0), !.wait = w,
       !.prior = IF srch.pc = "done" /\ ~srch.getRan /\ ~srch.stale
                 THEN [pattern |-> srch.pattern, cursor |-> srch.lastStart]
                 ELSE NoSearch.prior]

\* Search called on the buffer.
Search(P, n, w) ==
    /\ srch.pc \in {"idle", "done"}
    /\ rcv.pc = "idle"
    /\ srch' = StartSearch(P, n, w)
    /\ UNCHANGED <<transportVars, received, taken, rcv>>

\* Search returning -1 after the first pass whatever maxWait is.
NeverBlocking(sr) == FALSE

\* Search waiting whatever maxWait is.
AlwaysBlocking(sr) == TRUE

\* Search: a pass that found nothing waits only if maxWait > 0.
Blocking(sr) == sr.wait

\* Search taking the minimum length as reached only above it.
MinLenExceeded(b, n) == Len(b) > n

\* Search: len(b.buf) >= minLen
HasMinLen(b, n) == Len(b) >= n

\* Search: after a pass that found nothing the wake token is taken and
\* the lock released; with maxWait <= 0 the call returns -1.
Blocked(sr) ==
    IF Blocking(sr) THEN [sr EXCEPT !.pc = "wait"]
    ELSE [sr EXCEPT !.pc = "done", !.result = -1]

\* One pass of the loop of Search under b.mu.
Pass(sr, b) ==
    LET P == sr.pattern
        start == Min(Max(sr.lastStart, 0), Len(b))
        i == Index(SubSeq(b, start + 1, Len(b)), P)
        base == [sr EXCEPT !.seen = b, !.passes = Min(@ + 1, 2),
                           !.woken = FALSE]
    IN IF P = <<>>
       THEN IF HasMinLen(b, sr.minLen)
            THEN [base EXCEPT !.pc = "done", !.result = 0]
            ELSE Blocked(base)
       ELSE IF ~HasMinLen(b, sr.minLen) THEN Blocked(base)
       ELSE IF i >= 0
       THEN [base EXCEPT !.pc = "done", !.start = start,
                         !.result = start + i + Len(P)]
       ELSE Blocked([base EXCEPT
                       !.start = start,
                       !.lastStart = Max(Len(b) - Overlap(P), 0)])

\* The searcher takes b.mu and makes a pass.
SearchPass ==
    /\ srch.pc = "scan"
    /\ srch' = Pass(srch, received)
    /\ UNCHANGED <<transportVars, received, taken, rcv>>

\* Search: the select finds the wake token closed; continue.
SearchWake ==
    /\ srch.pc = "wait"
    /\ srch.woken
    /\ srch' = [srch EXCEPT !.pc = "scan"]
    /\ UNCHANGED <<transportVars, received, taken, rcv>>

\* Search: the deadline has passed or the timer fires; return -1.
SearchTimeout ==
    /\ srch.pc = "wait"
    /\ srch' = [srch EXCEPT !.pc = "done", !.result = -1, !.timedOut = TRUE]
    /\ UNCHANGED <<transportVars, received, taken, rcv>>

\* ---------------------------------------------------------------- Receive
\* appendData(data) on the reader in synchronous mode: Append, then
\* g.receivedSize += len(data) under the lock.
AppendData(p) ==
    /\ mu = "free"
    /\ receivedSize + Len(p) <= MaxAppended
    /\ \E fits \in Fits(taken, p) : AppendTo(p, fits)
    /\ receivedSize' = receivedSize + Len(p)
    /\ UNCHANGED <<portVars, mu, wg, synchronous, bracket, bytesReceived,
                   rxLog, rxUsed, readerVars, setupVars, countVars, regVars,
                   threadVars, stream, rcv>>

\* Receive accepting every request.
NeverInvalid(a) == FALSE

\* Receive: args.EOP == nil && args.Count == 0 && !args.AllData
Invalid(a) == ~a.hasEop /\ a.count = 0 /\ ~a.allData

\* Receive(args) up to the call of Search: the validation, the terminator
\* bytes and the wait time.
Receive(a) ==
    /\ rcv.pc \in {"idle", "done"}
    /\ srch.pc \in {"idle", "done"}
    /\ IF Invalid(a)
       THEN /\ rcv' = [NoReceive EXCEPT
                         !.pc = "done", !.hasEop = a.hasEop, !.eop = a.eop,
                         !.count = a.count, !.allData = a.allData,
                         !.wait = a.wait, !.err = "count_or_eop",
                         !.before = received, !.size = receivedSize]
            /\ UNCHANGED srch
       ELSE /\ rcv' = [NoReceive EXCEPT
                         !.pc = "search", !.hasEop = a.hasEop, !.eop = a.eop,
                         !.count = a.count, !.allData = a.allData,
                         !.wait = a.wait, !.before = received,
                         !.size = receivedSize]
            /\ srch' = StartSearch(a.eop, a.count, a.wait)
    /\ UNCHANGED <<transportVars, received, taken>>

\* Receive taking every result of Search as a match.
AlwaysMatch(k) == FALSE

\* Receive: if index == -1 { return false, nil }
NoMatch(k) == k = -1

\* Receive: Search returned.  Without a match return (false, nil);
\* otherwise Get(index), or Get(-1) for all data.
ReceiveGet ==
    /\ rcv.pc = "search"
    /\ srch.pc = "done"
    /\ IF NoMatch(srch.result)
       THEN /\ rcv' = [rcv EXCEPT !.pc = "done"]
            /\ UNCHANGED <<received, taken, srch>>
       ELSE /\ GetFrom(IF rcv.allData THEN -1 ELSE srch.result)
            /\ rcv' = [rcv EXCEPT
                         !.pc = "decode",
                         !.expect = First(received,
                                          Max(FirstEnd(received, rcv.eop), 0)),
                         !.rest = Rest(received,
                                       Max(FirstEnd(received, rcv.eop), 0)),
                         !.after = received']
    /\ UNCHANGED transportVars

\* Receive: BytesToAny2 reads the slice Get returned; return (true, nil).
ReceiveDecode ==
    /\ rcv.pc = "decode"
    /\ rcv' = [rcv EXCEPT !.pc = "done", !.matched = TRUE,
                          !.reply = taken.g2.ret]
    /\ UNCHANGED <<transportVars, received, taken, srch>>

\* ---------------------------------------------------------- byte counters
\* Another goroutine is inside a Send, a ResetByteCounters or the reader's
\* "g.bytesReceived += ...".
Busy(g) ==
    \/ \E t \in Threads \ {g} :
          tpc[t] \in {"send_add", "send_trace", "send_write", "reset_rx"}
    \/ \E r \in Readers \ {g} : rpc[r] = "count"

\* Send(data, receiver) up to the load of "g.bytesSent += uint64(len(tmp))":
\* ToBytes gives the bytes d of the payload.  No lock is taken.
Send(t, d) ==
    /\ tpc[t] = "idle"
    /\ tally.sends < MaxSends
    /\ regs' = [regs EXCEPT ![t] = [load |-> bytesSent, len |-> Len(d)]]
    /\ tpc' = [tpc EXCEPT ![t] = "send_add"]
    /\ tally' = [tally EXCEPT !.sends = @ + 1, !.overlap = @ \/ Busy(t)]
    /\ UNCHANGED <<portVars, mu, wg, synchronous, bracket, dataVars,
                   readerVars, setupVars, syncVars, stream, regVars,
                   bytesSent, call, lastSet, stateSeq>>

\* Send: the store of "g.bytesSent += uint64(len(tmp))".
SendStore(t) ==
    /\ tpc[t] = "send_add"
    /\ bytesSent' = regs[t].load + regs[t].len
    /\ tally' = [tally EXCEPT !.added = @ + regs[t].len]
    /\ tpc' = [tpc EXCEPT ![t] = "send_trace"]
    /\ UNCHANGED <<portVars, mu, wg, synchronous, bracket, dataVars,
                   readerVars, setupVars, syncVars, stream, regVars, regs,
                   call, lastSet, stateSeq>>

\* Send: ToString and tracef(true, Sent, ...), which takes the read lock.
SendTrace(t) ==
    /\ tpc[t] = "send_trace"
    /\ mu = "free"
    /\ tpc' = [tpc EXCEPT ![t] = "send_write"]
    /\ UNCHANGED <<portVars, mu, wg, synchronous, bracket, dataVars,
                   readerVars, setupVars, syncVars, stream, countVars,
                   regVars, call, lastSet, stateSeq>>

\* What g.s.write(tmp) returns and whether the bytes were written.  A port
\* that is not open returns an error; an open port writes the bytes ("ok"),
\* fails ("fail"), or on windows finds the operation aborted or the port
\* closing ("aborted") and returns (0, nil).
Write(out) ==
    IF ~IsOpen(s) THEN [ret |-> "not_open", wrote |-> FALSE]
    ELSE CASE out = "ok" -> [ret |-> "nil", wrote |-> TRUE]
           [] out = "fail" -> [ret |-> "device", wrote |-> FALSE]
           [] out = "aborted" -> [ret |-> "nil", wrote |-> FALSE]

\* Send: _, ret := g.s.write(tmp); return ret.
SendWrite(t, out) ==
    /\ tpc[t] = "send_write"
    /\ out = "aborted" => platform = "windows"
    /\ regs' = [regs EXCEPT ![t] = NoRegs]
    /\ tally' = [tally EXCEPT !.written = IF Write(out).wrote
                                          THEN @ + regs[t].len ELSE @]
    /\ tpc' = [tpc EXCEPT ![t] = "idle"]
    /\ UNCHANGED <<portVars, mu, wg, synchronous, bracket, dataVars,
                   readerVars, setupVars, syncVars, stream, regVars,
                   bytesSent, call, lastSet, stateSeq>>

\* ResetByteCounters(): g.bytesSent = 0.  No lock is taken.
ResetByteCounters(t) ==
    /\ tpc[t] = "idle"
    /\ bytesSent' = 0
    /\ tally' = [tally EXCEPT !.written = 0, !.added = 0, !.resets = TRUE,
                              !.overlap = Busy(t)]
    /\ tpc' = [tpc EXCEPT ![t] = "reset_rx"]
    /\ UNCHANGED <<portVars, mu, wg, synchronous, bracket, dataVars,
                   readerVars, setupVars, syncVars, stream, regVars, regs,
                   call, lastSet, stateSeq>>

\* ResetByteCounters(): g.bytesReceived = 0.
ResetReceived(t) ==
    /\ tpc[t] = "reset_rx"
    /\ bytesReceived' = 0
    /\ LET r1 == CHOOSE r \in Readers : TRUE
           r2 == CHOOSE r \in Readers \ {r1} : TRUE
           n(r) == IF rpc[r] = "count" THEN regs[r].len ELSE 0
       IN tally' = [tally EXCEPT !.after = 0, !.straddle = n(r1) + n(r2)]
    /\ tpc' = [tpc EXCEPT ![t] = "idle"]
    /\ UNCHANGED <<portVars, mu, wg, synchronous, bracket, received,
                   receivedSize, rxLog, rxUsed, readerVars, setupVars,
                   syncVars, stream, regVars, bytesSent, regs, call, lastSet,
                   stateSeq>>

\* reader(): a non-empty result; the load of
\* "g.bytesReceived += uint64(len(ret))".  No lock is taken.
CountLoad(r) ==
    /\ rpc[r] = "got"
    /\ rres[r].kind = "data"
    /\ regs' = [regs EXCEPT ![r] = [load |-> bytesReceived,
                                         len |-> Len(rres[r].data)]]
    /\ tally' = [tally EXCEPT !.after = @ + Len(rres[r].data),
                              !.overlap = @ \/ Busy(r)]
    /\ rpc' = [rpc EXCEPT ![r] = "count"]
    /\ UNCHANGED <<portVars, mu, wg, synchronous, bracket, dataVars, rres,
                   routed, readerErr, setupVars, syncVars, stream, regVars,
                   bytesSent, threadVars>>

\* reader(): the store of "g.bytesReceived += uint64(len(ret))"; then
\* handleData is called.
CountStore(r) ==
    /\ rpc[r] = "count"
    /\ bytesReceived' = regs[r].load + regs[r].len
    /\ regs' = [regs EXCEPT ![r] = NoRegs]
    /\ routed' = [routed EXCEPT ![r] = NoRoute]
    /\ rpc' = [rpc EXCEPT ![r] = "hd_trace"]
    /\ UNCHANGED <<portVars, mu, wg, synchronous, bracket, received,
                   receivedSize, rxLog, rxUsed, rres, readerErr, setupVars,
                   syncVars, stream, regVars, bytesSent, tally, threadVars>>

\* ---------------------------------------------------- configuration setters
\* The port setter refuses the value v itself (not a failed device call).
\* linux setStopBits accepts StopBitsOne and 0 only; darwin and windows
\* accept StopBitsOne and StopBitsTwo; windows checks nothing else.  The
\* baud rates are the non-zero ones of toUnitBaudrate.
SetterRejects(plat, field, v) ==
    CASE plat = "windows" -> field = "stopBits" /\ v \notin {1, 2}
      [] field = "baudRate" ->
           v \notin {50, 75, 110, 134, 150, 200, 300, 600, 1200, 1800, 2400,
                     4800, 9600, 19200, 38400, 57600, 115200}
      [] field = "dataBits" -> v \notin 5..8
      [] field = "parity" -> v \in {"Mark", "Space"}
      [] field = "stopBits" /\ plat = "linux" -> v \notin {0, 1}
      [] field = "stopBits" /\ plat = "darwin" -> v \notin {1, 2}

\* The error the setter of the open port returns: devFail says that writing
\* the device attributes failed.
PortSet(plat, field, v, devFail) ==
    IF SetterRejects(plat, field, v) THEN "invalid_value"
    ELSE IF devFail THEN "device" ELSE "nil"

\* SetBaudRate, SetDataBits, SetStopBits, SetParity: the field is assigned
\* (no lock is taken); if the port is open the port setter's result is
\* returned, otherwise nil.  No handler is called.  lastSet.old is the
\* value the field had before the call.
SetField(t, field, v, devFail) ==
    /\ tpc[t] = "idle"
    /\ cfg' = [cfg EXCEPT ![field] = v]
    /\ lastSet' = [field |-> field, wasOpen |-> IsOpen(s), ev |-> {},
                   old |-> cfg[field],
                   ret |-> IF IsOpen(s) THEN PortSet(platform, field, v, devFail)
                           ELSE "nil"]
    /\ UNCHANGED <<platform, handlers, traceLevel, eop, countVars, regVars,
                   portVars, mu, wg, synchronous, bracket, dataVars,
                   readerVars, tpc, call, stateSeq, syncVars, stream>>

\* A reset that empties the synchronous buffer.
ResetClears(t) ==
    /\ tpc[t] = "idle"
    /\ received' = <<>>
    /\ UNCHANGED <<transportVars, taken, srch, rcv>>

\* ResetSynchronousBuffer(): the function body is empty.
ResetSynchronousBuffer(t) ==
    /\ tpc[t] = "idle"
    /\ UNCHANGED vars

\* SetTrace(traceLevel): g.traceLevel = traceLevel; return nil.  No lock is
\* taken.
SetTrace(t, level) ==
    /\ tpc[t] = "idle"
    /\ traceLevel' = level
    /\ UNCHANGED <<platform, cfg, handlers, eop, countVars, regVars, portVars,
                   mu, wg, synchronous, bracket, dataVars, readerVars,
                   threadVars, syncVars, stream>>

\* SetEop(eop): g.eop = eop.  No lock is taken.
SetEop(t, e) ==
    /\ tpc[t] = "idle"
    /\ eop' = e
    /\ UNCHANGED <<platform, cfg, handlers, traceLevel, countVars, regVars,
                   portVars, mu, wg, synchronous, bracket, dataVars,
                   readerVars, threadVars, syncVars, stream>>

\* The registrations after the field k was assigned h: a reader that has
\* not taken g.mu since can still read the value it could read before.
Assigned(k, h) ==
    [cur |-> [reg.cur EXCEPT ![k] = h],
     stale |-> [r \in Readers |->
                  [reg.stale[r] EXCEPT ![k] =
                     IF @ # reg.cur[k] THEN @ ELSE reg.cur[k]]]]

\* SetOnReceived, SetOnError, SetOnMediaStateChange, SetOnTrace: Lock; the
\* field is assigned; Unlock.
SetOn(t, k, h) ==
    /\ tpc[t] = "idle"
    /\ mu = "free"
    /\ reg' = Assigned(k, h)
    /\ handlers' = IF h = "nil" THEN handlers \ {k} ELSE handlers \cup {k}
    /\ UNCHANGED <<platform, cfg, traceLevel, eop, countVars, disp, portVars,
                   mu, wg, synchronous, bracket, dataVars, readerVars,
                   threadVars, syncVars, stream>>

SetBaudRate(t, v, devFail) == SetField(t, "baudRate", v, devFail)

SetDataBits(t, v, devFail) == SetField(t, "dataBits", v, devFail)

SetStopBits(t, v, devFail) == SetField(t, "stopBits", v, devFail)

SetParity(t, v, devFail) == SetField(t, "parity", v, devFail)

\* ------------------------------------------------------------- next state
LifeStep(t) ==
    \/ Open(t)
    \/ \E step \in {LinuxSteps[i] : i \in 1..Len(LinuxSteps)}
                    \cup {WindowsSteps[i] : i \in 1..Len(WindowsSteps)} :
          OpenFail(t, step)
    \/ OpenDone(t)
    \/ Close(t)
    \/ \E failed \in BOOLEAN : ClosePort(t, failed)
    \/ CloseFinish(t)
    \/ CloseWait(t)

SyncStep(t) ==
    \/ GetSynchronous(t)
    \/ ReleaseSynchronous(t)

ReadStep(r) ==
    \/ ReadEnter(r)
    \/ ReadError(r)
    \/ ReadFault(r)
    \/ ReadCancel(r)
    \/ ReaderFail(r)
    \/ ReaderEmpty(r)

DataStep(r) ==
    \/ \E c \in {<<1>>, <<2, 3>>} : ReadData(r, c)
    \/ ReaderData(r)
    \/ HandleTrace(r)
    \/ Route(r)
    \/ Receivef(r)
    \/ AppendSize(r)

\* The life cycle with a device that delivers data; the configuration is
\* the one given to the constructor.
Next ==
    \/ \E t \in Threads : LifeStep(t) \/ SyncStep(t)
    \/ \E r \in Readers : ReadStep(r) \/ DataStep(r)

Spec == Init /\ [][Next]_vars

\* The life cycle with every configuration and the setters, on a device
\* that delivers no data.
NextCfg ==
    \/ \E t \in Threads : LifeStep(t)
    \/ \E t \in Threads, devFail \in BOOLEAN :
          \/ \E v \in BaudRates : SetBaudRate(t, v, devFail)
          \/ \E v \in DataBitsValues : SetDataBits(t, v, devFail)
          \/ \E v \in StopBitsValues : SetStopBits(t, v, devFail)
          \/ \E v \in Parities : SetParity(t, v, devFail)
    \/ \E r \in Readers : ReadStep(r)

SpecCfg == InitCfg /\ [][NextCfg]_vars

\* The synchronous buffer of a new transport.
InitBuf ==
    /\ InitCommon
    /\ platform = "linux"
    /\ handlers = {}
    /\ traceLevel = 0
    /\ cfg = DefaultCfg

\* Append and Search called on the buffer by one appender and one
\* searcher; no Get runs.
NextBuf ==
    \/ \E p \in Pieces : BufAppend(p)
    \/ \E P \in {<<>>, <<1>>, <<1, 2>>, <<1, 2, 1>>}, n \in {-1, 0, 2},
         w \in BOOLEAN : Search(P, n, w)
    \/ SearchPass
    \/ SearchWake
    \/ SearchTimeout

SpecBuf == InitBuf /\ [][NextBuf]_vars

\* Append and Get called on the buffer; no Search runs.
NextGet ==
    \/ \E p \in Pieces : BufAppend(p)
    \/ \E count \in -1..MaxBuf : Get(count)

SpecGet == InitBuf /\ [][NextGet]_vars

\* Receive called by one consumer while the reader appends.
NextRecv ==
    \/ \E p \in {<<1>>, <<2>>, <<2, 3>>} : AppendData(p)
    \/ \E a \in ReceiveArgs : Receive(a)
    \/ SearchPass
    \/ SearchWake
    \/ SearchTimeout
    \/ ReceiveGet
    \/ ReceiveDecode

SpecRecv == InitBuf /\ [][NextRecv]_vars

\* Every handler is registered and no trace type passes the level.
InitRead ==
    /\ InitCommon
    /\ handlers = HandlerKinds
    /\ traceLevel = 0
    /\ cfg = DefaultCfg

\* The life cycle with a device whose reads can take several queued bursts.
NextRead ==
    \/ \E t \in Threads : LifeStep(t) \/ SyncStep(t)
    \/ \E r \in Readers :
          \/ ReadStep(r)
          \/ ReadFirst(r)
          \/ ReadDrained(r)
          \/ ReadNested(r)
          \/ ReadNestedFail(r)
          \/ ReadNestedCancel(r)
          \/ ReaderData(r)
          \/ HandleTrace(r)
          \/ Route(r)
          \/ Receivef(r)
          \/ AppendSize(r)

SpecRead == InitRead /\ [][NextRead]_vars

\* Send, the reader and ResetByteCounters on a port that is opened and not
\* closed again; every read finds one queued byte and the device never
\* fails.
NextCount ==
    \/ \E t \in Threads :
          \/ Open(t)
          \/ OpenDone(t)
          \/ \E d \in {<<1>>, <<1, 2>>} : Send(t, d)
          \/ SendStore(t)
          \/ SendTrace(t)
          \/ \E out \in {"ok", "fail", "aborted"} : SendWrite(t, out)
          \/ ResetByteCounters(t)
          \/ ResetReceived(t)
    \/ \E r \in Readers :
          \/ ReadEnter(r)
          \/ ReadFirst(r)
          \/ ReadDrained(r)
          \/ CountLoad(r)
          \/ CountStore(r)
          \/ HandleTrace(r)
          \/ Route(r)
          \/ Receivef(r)

\* No handler is registered and no trace type passes the level.
InitQuiet ==
    /\ InitCommon
    /\ handlers = {}
    /\ traceLevel = 0
    /\ cfg = DefaultCfg

\* The windows port, the one whose write has every outcome.
InitCount == InitQuiet /\ platform = "windows"

SpecCount == InitCount /\ [][NextCount]_vars


\* The life cycle, the synchronous bracket and Receive without a
\* terminator on a device that delivers no data.
NextMode ==
    \/ \E t \in Threads : LifeStep(t) \/ SyncStep(t)
    \/ \E r \in Readers : ReadStep(r)
    \/ \E a \in {x \in ReceiveArgs : ~x.hasEop} : Receive(a)
    \/ SearchPass
    \/ SearchTimeout
    \/ ReceiveGet
    \/ ReceiveDecode

SpecMode == InitQuiet /\ [][NextMode]_vars

\* The life cycle on a device that delivers no data, while the application
\* registers other error handlers.
NextDisp ==
    \/ \E t \in Threads : LifeStep(t)
    \/ \E t \in Threads, h \in {"h1", "h2"} : SetOn(t, "error", h)
    \/ \E r \in Readers : ReadStep(r)

SpecDisp == InitRead /\ [][NextDisp]_vars

\* =================================================================== claims
Alive == {r \in Readers : rpc[r] # "none"}

\* C1: once a Close() call has returned, the reader started by the
\* preceding Open() has exited: in the state the return leaves no reader
\* goroutine runs, a reader that is not running is started again only by a
\* successful Open(), and while no reader runs nothing is passed to the
\* receive or error handler from a reader and nothing is appended to the
\* synchronous buffer.
C1_ReaderExitedAfterClose ==
    [][/\ (\E t \in Threads : tpc[t] = "close_wait" /\ tpc'[t] = "idle")
          => Alive' = {}
       /\ \A r \in Readers :
            (rpc[r] = "none" /\ rpc'[r] # "none")
            => call'.op = "Open" /\ call'.spawned = 1 /\ call'.ret = "nil"
       /\ Alive = {}
          => /\ rxLog' = rxLog
             /\ received' = received
             /\ readerErr' = readerErr]_vars

\* A Close() on an open transport whose reader was running has returned.
C1_Witness ==
    /\ call.op = "Close"
    /\ call.wasOpen
    /\ call.readers = 1
    /\ call.ret = "nil"
    /\ Alive = {}

\* C2: every Close() call on an open transport eventually returns: a
\* Close() that has taken the lock is never in a state in which neither it
\* nor any reader goroutine can take a step.
C2_CloseReturns ==
    \A t \in Threads :
        tpc[t] \in {"close_port", "close_fin", "close_wait"}
        => ENABLED (LifeStep(t) \/ \E r \in Readers : ReadStep(r) \/ DataStep(r))

\* C3: a Close() call made when the transport is already closed invokes
\* no state-change handler and no trace handler.
C3_CloseIdempotent ==
    (call.op = "Close" /\ ~call.wasOpen) => call.ev = {}

\* C4: Open() called while the transport is already open returns no error,
\* does not call the platform open, starts no reader and emits no
\* state-change or trace event.
C4_OpenOnOpenIsNoop ==
    [][(/\ IsOpen(s)
        /\ call' # call
        /\ call'.op = "Open"
        /\ tpc[call'.by] = "idle")
       => /\ call'.ret = "nil"
          /\ call'.ev = {}
          /\ call'.hw = 0
          /\ call'.spawned = 0
          /\ UNCHANGED <<s, os, wg, rpc, tpc, mu, stateSeq>>]_vars

\* An Open() on an open transport with its reader running has returned.
C4_Witness ==
    /\ call.op = "Open"
    /\ call.wasOpen
    /\ call.ret = "nil"
    /\ IsOpen(s)
    /\ Cardinality(Alive) = 1

\* C5: at most one background reader is alive in every reachable state, a
\* reader is started only by an Open() whose platform open succeeded, and
\* the device is never opened twice.
C5_AtMostOneReader ==
    /\ Cardinality(Alive) <= 1
    /\ os.dev <= 1
    /\ call.spawned > 0 => call.op = "Open" /\ call.hw = 1 /\ call.ret = "nil"


\* C6: whenever IsOpen() is true and no Open() or Close() call is in
\* progress, exactly one background reader is running.
C6_OneReaderWhileOpen ==
    (IsOpen(s) /\ \A t \in Threads : tpc[t] = "idle")
    => Cardinality(Alive) = 1

\* C7: whenever Open() returns an error the transport is closed afterwards:
\* IsOpen() is false, no reader was started and no resource acquired during
\* the attempt is still held.
C7_FailedOpenReleases ==
    (call.op = "Open" /\ call.ret \notin {"nil", "pending"})
    => /\ ~IsOpen(s)
       /\ call.spawned = 0
       /\ os = NoRes

\* C8: a failure of Open() or of a configuration setter on an open port is
\* returned to the caller and the registered error handler is invoked with
\* the same error.
C8_FailureDeliveredTwice ==
    /\ (call.op = "Open" /\ call.ret \notin {"nil", "pending"}
        /\ "error" \in handlers)
       => <<"error", call.ret>> \in call.ev
    /\ (lastSet.wasOpen /\ lastSet.ret \notin {"nil", "none"}
        /\ "error" \in handlers)
       => <<"error", lastSet.ret>> \in lastSet.ev

\* C9: the sequence of state values delivered to the state-change handler
\* is a path of the state machine: any two consecutive deliveries are a
\* transition of it.  The transitions are Closed->Opening->Open->Closing->
\* Closed and Opening->Closed; "None" stands for the Closed state of a new
\* transport before any delivery.
C9_StateSequenceIsPath ==
    <<stateSeq.prev, stateSeq.last>>
    \in {<<"None", "None">>, <<"None", "Opening">>, <<"Closed", "Opening">>,
         <<"Opening", "Open">>, <<"Opening", "Closed">>,
         <<"Open", "Closing">>, <<"Closing", "Closed">>}

\* a is an initial part of b.
IsPrefix(a, b) == Len(a) <= Len(b) /\ a = SubSeq(b, 1, Len(a))

\* C11: bytes are neither lost, duplicated nor reordered between the device
\* and the consumer: the chunks appended to the synchronous buffer or
\* passed to the receive handler, concatenated in delivery order, are an
\* initial part of the bytes the port read from the device, and are all of
\* them once no reader holds undelivered bytes.
C11_StreamPreserved ==
    /\ IsPrefix(stream.out, stream.read)
    /\ (\A r \in Readers : rpc[r] \in {"none", "read", "wait", "append_lock"})
       => stream.out = stream.read

\* C12: a Search(P, 0, wait > 0) for a non-empty P, with no Get running, is
\* never blocked on an open wake token while the buffer holds P, whatever
\* the Append calls that brought P were, and when it returns before its
\* deadline it returns the offset immediately after the first occurrence
\* of P in the buffer.
C12_SplitPatternFound ==
    (srch.pattern # <<>> /\ srch.minLen = 0 /\ srch.wait /\ ~srch.getRan)
    => /\ (srch.pc = "wait" /\ ~srch.woken)
          => Matches(received, srch.pattern) = {}
       /\ (srch.pc = "done" /\ ~srch.timedOut)
          => /\ srch.result >= Len(srch.pattern)
             /\ srch.result = FirstEnd(srch.seen, srch.pattern)

\* A Search for <<1, 2, 1>> that was blocked returned the offset after the
\* pattern, which arrived in two Append calls.
C12_Witness ==
    /\ srch.pc = "done"
    /\ srch.wait
    /\ ~srch.timedOut
    /\ srch.minLen = 0
    /\ srch.pattern = <<1, 2, 1>>
    /\ srch.passes = 2
    /\ srch.seen = <<1, 2, 1>>
    /\ srch.result = 3

\* C13: when Search with a non-empty pattern P returns k >= 0 and no Get
\* ran during the call, then len(P) <= k <= len(buffer), the bytes
\* buffer[k-len(P) .. k) are P and no occurrence of P ends before k.
C13_FirstOccurrence ==
    (srch.pc = "done" /\ srch.pattern # <<>> /\ srch.result >= 0
     /\ ~srch.getRan)
    => LET k == srch.result
           P == srch.pattern
       IN /\ Len(P) <= k
          /\ k <= Len(srch.seen)
          /\ SubSeq(srch.seen, k - Len(P) + 1, k) = P
          /\ \A i \in Matches(srch.seen, P) : i + Len(P) >= k

\* A Search for <<1>> returned 1 on a buffer in which <<1>> occurs twice.
C13_Witness ==
    /\ srch.pc = "done"
    /\ srch.pattern = <<1>>
    /\ srch.result = 1
    /\ Cardinality(Matches(srch.seen, <<1>>)) >= 2

\* C14: the search cursor only advances across successive Search calls for
\* the same pattern on one buffer (no Get in between): a pass of the later
\* call does not start before the cursor the earlier call ended with.
C14_CursorOnlyAdvances ==
    (/\ srch.pattern # <<>>
     /\ srch.prior.pattern = srch.pattern
     /\ ~srch.getRan
     /\ srch.start >= 0)
    => srch.start >= srch.prior.cursor

\* C15: Search with an empty pattern and minLength N returns 0 on the first
\* pass on which the buffer holds at least N bytes; otherwise it blocks,
\* makes a new pass after every Append, and returns -1 only when maxWait
\* is not positive or has elapsed.
C15_EmptyPatternMinLength ==
    (srch.pattern = <<>> /\ srch.pc \in {"wait", "done"})
    => /\ srch.pc = "wait"
          => /\ srch.wait
             /\ Len(srch.seen) < srch.minLen
             /\ ~srch.woken => received = srch.seen
       /\ srch.pc = "done"
          => \/ srch.result = 0 /\ Len(srch.seen) >= srch.minLen
             \/ /\ srch.result = -1
                /\ Len(srch.seen) < srch.minLen
                /\ ~srch.wait \/ srch.timedOut

\* A blocked Search with an empty pattern and minLength 2 returned 0 once
\* the buffer held two bytes.
C15_Witness ==
    /\ srch.pc = "done"
    /\ srch.pattern = <<>>
    /\ srch.minLen = 2
    /\ srch.wait
    /\ srch.passes = 2
    /\ srch.result = 0
    /\ Len(srch.seen) >= 2

\* C16: Search called with maxWait <= 0 never waits on the wake token or a
\* timer: it makes one pass and returns the match offset if the condition
\* holds on that pass and -1 otherwise.
C16_NoWaitNeverBlocks ==
    (~srch.wait /\ srch.pc # "idle")
    => /\ srch.pc # "wait"
       /\ ~srch.timedOut
       /\ srch.passes <= 1
       /\ srch.pc = "done"
          => srch.result =
               IF Len(srch.seen) < srch.minLen THEN -1
               ELSE IF srch.pattern = <<>> THEN 0
               ELSE FirstEnd(srch.seen, srch.pattern)

\* A Search with maxWait <= 0 returned -1 on a buffer without the pattern.
C16_Witness ==
    /\ srch.pc = "done"
    /\ ~srch.wait
    /\ srch.pattern = <<1, 2>>
    /\ srch.seen # <<>>
    /\ srch.result = -1

\* C18: Get(count) with 0 <= count <= len(B) returns the first count bytes
\* of B and leaves the remaining bytes in order; an immediately following
\* Get(-1) returns exactly the remaining bytes and leaves the buffer
\* empty, and the two results concatenated are B.
C18_GetPartition ==
    /\ (taken.gets >= 1 /\ taken.fresh /\ taken.g2.count >= 0)
       => /\ taken.g2.ret = SubSeq(taken.g2.before, 1, taken.g2.count)
          /\ received = SubSeq(taken.g2.before, taken.g2.count + 1,
                               Len(taken.g2.before))
    /\ (/\ taken.gets = 2 /\ taken.adjacent /\ taken.fresh
        /\ taken.g1.count >= 0 /\ taken.g2.count = -1)
       => /\ taken.g2.ret = taken.g1.after
          /\ received = <<>>
          /\ taken.g1.ret \o taken.g2.ret = taken.g1.before
          /\ Len(taken.g1.ret) = taken.g1.count

\* Get(1) on a buffer of three bytes was followed at once by Get(-1).
C18_Witness ==
    /\ taken.gets = 2
    /\ taken.adjacent
    /\ taken.fresh
    /\ taken.g1.count = 1
    /\ Len(taken.g1.before) = 3
    /\ taken.g2.count = -1
    /\ Len(taken.g2.ret) = 2

\* The request a sets none of terminator, byte count and all-data.
Unframed(a) == ~a.hasEop /\ a.count = 0 /\ ~a.allData

\* C17: a Receive whose Search returned -1 (the condition was not met
\* within the wait time) returns matched=false with a nil error, and the
\* buffer still holds, in order, the bytes it held when the call was made.
C17_TimeoutKeepsBuffer ==
    (rcv.pc = "done" /\ ~Unframed(rcv) /\ srch.result = -1)
    => /\ ~rcv.matched
       /\ rcv.err = "none"
       /\ IsPrefix(rcv.before, received)

\* A Receive with a positive wait time timed out on a non-empty buffer.
C17_Witness ==
    /\ rcv.pc = "done"
    /\ rcv.hasEop
    /\ rcv.wait
    /\ srch.timedOut
    /\ ~rcv.matched
    /\ rcv.before # <<>>
    /\ received = rcv.before

\* C19: a Receive request that sets none of terminator, byte count and
\* all-data returns a validation error and matched=false in the step of
\* the call, without a Search, and leaves the buffer unchanged.
C19_InvalidRequestRejected ==
    [][(rcv' # rcv /\ Unframed(rcv'))
       => /\ rcv'.pc = "done"
          /\ rcv'.err = "count_or_eop"
          /\ ~rcv'.matched
          /\ UNCHANGED <<received, srch, taken>>]_vars

\* A request without terminator, count and all-data was rejected on a
\* non-empty buffer.
C19_Witness ==
    /\ rcv.pc = "done"
    /\ Unframed(rcv)
    /\ rcv.err = "count_or_eop"
    /\ received # <<>>

\* C20: a Receive with a terminator T (all-data not set) that matches
\* returns as reply the buffered bytes from the start through the first
\* occurrence of T and leaves exactly the later bytes in the buffer; a
\* Receive with a positive wait on a buffer without T, during which
\* nothing is appended, returns matched=false with no error.
C20_TerminatorFraming ==
    (rcv.pc = "done" /\ rcv.hasEop /\ ~rcv.allData)
    => /\ rcv.matched
          => /\ rcv.reply = rcv.expect
             /\ rcv.after = rcv.rest
       /\ (rcv.wait /\ Matches(rcv.before, rcv.eop) = {}
           /\ receivedSize = rcv.size)
          => ~rcv.matched /\ rcv.err = "none"

\* A reader holds a chunk that handleData has not finished routing.
InFlight(r) == rpc[r] \in {"hd_trace", "route", "recv"}

\* No reader holds a chunk that is not yet counted or not yet routed.
Settled == \A r \in Readers : ~InFlight(r) /\ rpc[r] # "got"

\* C10 (as amended): every non-empty chunk the port read returned is
\* appended to the synchronous buffer if synchronous mode was active when
\* handleData read the flag; otherwise it is passed to the receive handler
\* if one is registered and is discarded if none is.  No chunk goes to both
\* destinations: once no chunk is in flight, the bytes in the buffer plus
\* the bytes given to the handler are the bytes read when a handler is
\* registered, and never more than the bytes read when none is.
C10_ChunkRoutedOnce ==
    /\ \A r \in Readers :
          (routed[r].chunk # <<>> /\ ~InFlight(r))
          => routed[r].dest
             = IF routed[r].sync THEN {"buffer"}
               ELSE IF "recv" \in handlers THEN {"handler"} ELSE {}
    /\ Settled
       => /\ Len(received) + Len(rxLog) <= bytesReceived
          /\ "recv" \in handlers
             => Len(received) + Len(rxLog) = bytesReceived

\* C10 (as stated): every non-empty chunk the port read returned is routed
\* to exactly one destination, the synchronous buffer or the receive
\* handler; no chunk goes to both and no chunk goes to neither.
C10_ExactlyOneDestination ==
    /\ \A r \in Readers :
          (routed[r].chunk # <<>> /\ ~InFlight(r))
          => routed[r].dest = IF routed[r].sync THEN {"buffer"}
                              ELSE {"handler"}
    /\ Settled => Len(received) + Len(rxLog) = bytesReceived

\* A chunk was appended to the synchronous buffer in synchronous mode.
C10_Witness ==
    /\ "recv" \in handlers
    /\ \E r \in Readers :
         /\ routed[r].sync
         /\ routed[r].dest = {"buffer"}
         /\ ~InFlight(r)
         /\ received = routed[r].chunk
    /\ rxLog = <<>>

\* C21: a Receive framed only by a byte count N > 0 (no terminator, all
\* data not set) that matched, with nothing appended since the call began,
\* returns as reply the first N bytes the buffer held and leaves the buffer
\* without those N bytes.
C21_CountFraming ==
    (/\ rcv.pc = "done"
     /\ rcv.matched
     /\ ~rcv.hasEop /\ ~rcv.allData /\ rcv.count > 0
     /\ receivedSize = rcv.size)
    => /\ rcv.reply = First(rcv.before, rcv.count)
       /\ received = Rest(rcv.before, rcv.count)

\* No Send, no reset and no count of a chunk is under way, and no reader
\* holds a chunk it has not counted.
CountersAtRest ==
    /\ \A t \in Threads :
          tpc[t] \notin {"send_add", "send_trace", "send_write", "reset_rx"}
    /\ \A r \in Readers : rpc[r] \notin {"more", "got", "count"}

\* C22: after any sequence of Send calls and reader deliveries since the
\* last ResetByteCounters(), none of them overlapping another, GetBytesSent()
\* is the number of bytes the port wrote for Send (a Send that returned an
\* error adds nothing) and GetBytesReceived() is the number of bytes of the
\* chunks the reader read.
C22_CountersExact ==
    (CountersAtRest /\ ~tally.overlap)
    => /\ bytesSent = tally.written
       /\ bytesReceived = tally.after

\* C23: counter updates are not lost: when no reset ran, the Send calls
\* that have returned raised GetBytesSent() by the sum of their payload
\* lengths; and after a ResetByteCounters() that ran while the reader was
\* counting a chunk, GetBytesReceived() counts the chunks counted since the
\* reset, with or without the chunk whose count the reset met.
C23_CountersNotLost ==
    /\ (CountersAtRest /\ ~tally.resets) => bytesSent = tally.added
    /\ CountersAtRest
       => bytesReceived \in {tally.after, tally.after + tally.straddle}

\* C24: a new transport is in asynchronous mode, and synchronous mode is
\* active exactly while a release function returned by GetSynchronous()
\* has not been invoked: IsSynchronous() is true from the return of
\* GetSynchronous() to the release and false after it, whatever Open(),
\* Close() and Receive() calls run meanwhile.
C24_SyncBracket == synchronous <=> bracket = "held"

\* Synchronous mode is active after a Receive matched and a Close() call
\* returned.
C24_Witness ==
    /\ synchronous
    /\ bracket = "held"
    /\ rcv.pc = "done" /\ rcv.matched
    /\ call.op = "Close" /\ call.ret = "nil"

\* C25: every write of a configuration field (baud rate, data bits,
\* parity, stop bits, EOP, trace level), of a callback registration and of
\* the synchronous-mode flag, and the reader's read of that flag, is made
\* with the transport lock taken: none of them happens while another
\* goroutine holds g.mu.
C25_SharedFieldsUnderLock ==
    [][(\/ cfg' # cfg
        \/ eop' # eop
        \/ traceLevel' # traceLevel
        \/ reg'.cur # reg.cur
        \/ synchronous' # synchronous
        \/ \E r \in Readers : rpc[r] = "route" /\ rpc'[r] # "route")
       => mu = "free"]_vars

\* C26: each handler setter replaces the prior handler and every dispatch
\* reads the registration at invocation time: the handler a reader
\* goroutine calls, on its receive path and on its error path, is the one
\* registered when it dispatches, never one that a setter that has
\* returned replaced.
C26_DispatchReadsCurrent == disp.kind # "none" => disp.h = disp.cur

\* The life cycle and SetTrace between and during the calls, on a device
\* that delivers no data; the levels are off and the values of the Error,
\* Warning and Info types.
NextTrace ==
    \/ \E t \in Threads : LifeStep(t)
    \/ \E t \in Threads, level \in {0, 4, 8, 16} : SetTrace(t, level)
    \/ \E r \in Readers : ReadStep(r)

SpecTrace == Init /\ [][NextTrace]_vars

NextEop ==
    \/ \E t \in Threads : LifeStep(t) \/ SyncStep(t)
    \/ \E t \in Threads, e \in {<<>>, <<3>>} : SetEop(t, e)
    \/ \E r \in Readers : ReadStep(r) \/ DataStep(r)

SpecEop == InitRead /\ [][NextEop]_vars

\* C28: while a marker is configured with SetEop, the receive handler is
\* not given a chunk in which the marker does not occur: the bytes are
\* held back until the marker has been read.
C28_EopBuffering ==
    [][\A r \in Readers :
          (rpc[r] = "recv" /\ rxLog' # rxLog /\ eop # <<>>)
          => Matches(rres[r].data, eop) # {}]_vars

\* C29: Close() is silent towards the error handler: the error handler is
\* invoked by a reader only with the error of a device fault (a failed
\* read, or a failed ClearCommError), never with an error of a read that
\* Close() interrupted or that found the port closed.
C29_SilentClose == readerErr \in {"none", "device", "bytes_to_read"}

\* C30: when a read returns a device error, the reader reports it and
\* terminates in the same step: with an error handler registered the
\* handler is called, once, with that error; the goroutine is done (it
\* reads no more and delivers no more chunks), and its place is taken only
\* by the reader a later Open() starts.
C30_ErrorReportedOnce ==
    [][\A r \in Readers :
          /\ (/\ rpc[r] = "got"
              /\ rres[r].kind = "err"
              /\ rres[r].err = "device"
              /\ rpc'[r] # rpc[r])
             => /\ rpc'[r] = "none"
                /\ wg' = wg - 1
                /\ rxLog' = rxLog
                /\ "error" \in handlers
                   => /\ readerErr' = "device"
                      /\ disp'.kind = "error"
                      /\ disp'.h # "nil"
          /\ (rpc[r] = "none" /\ rpc'[r] # "none")
             => \E t \in Threads : tpc[t] = "open_port" /\ tpc'[t] = "idle"]_vars

\* The device error reached the error handler, the connection is still
\* open and no reader is left.
C30_Witness ==
    /\ readerErr = "device"
    /\ disp.kind = "error"
    /\ IsOpen(s)
    /\ wg = 0
    /\ \A r \in Readers : rpc[r] = "none"

\* Receive with a terminator and a wait time, called while the connection
\* is opened and closed and while chunks are appended to the synchronous
\* buffer; the device delivers nothing and does not fail.
NextWait ==
    \/ \E t \in Threads : LifeStep(t)
    \/ \E r \in Readers : ReadEnter(r) \/ ReadCancel(r) \/ ReaderFail(r)
    \/ \E p \in {<<1>>, <<2>>} : AppendData(p)
    \/ \E a \in {x \in ReceiveArgs :
                  x.wait /\ ~x.allData /\ x.hasEop /\ x.count = 0} :
          Receive(a)
    \/ SearchPass
    \/ SearchWake
    \/ SearchTimeout
    \/ ReceiveGet
    \/ ReceiveDecode

SpecWait == InitBuf /\ [][NextWait]_vars

\* C31: a Receive blocked in the pattern search leaves the wait only when
\* an Append woke it (it then checks the buffer again) or when its own
\* wait time elapsed; no step of Open() or Close() changes the search, the
\* Receive call or the buffer; and a Receive that passed the validation
\* returns no error, and returns without a match only after its timeout.
C31_CloseDoesNotCancelReceive ==
    [][/\ (srch.pc = "wait" /\ srch'.pc # "wait")
          => \/ srch.woken /\ srch'.pc = "scan"
             \/ srch'.pc = "done" /\ srch'.timedOut /\ srch'.result = -1
       /\ tpc' # tpc
          => srch' = srch /\ rcv' = rcv /\ received' = received
       /\ (rcv.pc = "search" /\ rcv'.pc = "done")
          => rcv'.err = "none" /\ srch.timedOut]_vars

\* The searcher of a Receive is still waiting after a Close() of the open
\* connection returned.
C31_Witness ==
    /\ rcv.pc = "search"
    /\ srch.pc = "wait"
    /\ call.op = "Close" /\ call.ret = "nil"
    /\ call.wasOpen /\ call.readers = 1
    /\ ~IsOpen(s)

\* C32: the live setters enforce the constraints of Open(): a setter called
\* on the open port with the value v, whose device call does not fail,
\* returns nil if and only if Open() accepts a configuration that has v in
\* that field (and the constructor's values in the others).
C32_SameConstraints ==
    (lastSet.field # "none" /\ lastSet.wasOpen /\ lastSet.ret # "device")
    => (lastSet.ret = "nil"
        <=> OpenCanSucceed(platform,
                           [DefaultCfg EXCEPT
                              ![lastSet.field] = cfg[lastSet.field]]))

\* C33: while the transport is open the accessors report the parameters
\* applied to the device: a setter that returned an error on the open port
\* changed neither, so the accessor of its field still reports the value
\* it reported before the call.
C33_AccessorsMatchDevice ==
    (lastSet.field # "none" /\ lastSet.wasOpen /\ lastSet.ret # "nil")
    => cfg[lastSet.field] = lastSet.old

\* C34: when Close() returns, IsOpen() is false, also when a step of
\* releasing the operating-system resources failed during the call.
C34_ClosedAfterClose ==
    [][\A t \in Threads :
          (tpc[t] = "close_wait" /\ tpc'[t] = "idle") => ~IsOpen(s')]_vars

\* A Close() of the open connection returned, a release step had failed
\* and the port is closed.
C34_Witness ==
    /\ call.op = "Close" /\ call.ret = "nil"
    /\ call.wasOpen /\ call.readers = 1
    /\ call.closeErr
    /\ ~IsOpen(s)

\* C35: no wake-up is lost between Append and a searcher: while a Search
\* waits on a wake token that is not closed, the buffer is the one its last
\* check saw, i.e. every Append that completed after the check closed the
\* token the searcher took; so a Search that times out on an open token
\* has missed no appended byte.
C35_NoLostWakeup ==
    (srch.pc = "wait" /\ ~srch.woken) => received = srch.seen

\* An Append that completed after the searcher's check released it.
C35_Witness ==
    /\ srch.pc = "wait"
    /\ srch.woken
    /\ received # srch.seen

\* Receive with a terminator (matching or timing out) and invalid Receive
\* calls, while the connection is opened and closed, synchronous mode is
\* taken and released, ResetSynchronousBuffer is called and chunks, the
\* empty one included, are appended to the synchronous buffer.
NextDrain ==
    \/ \E t \in Threads :
          \/ Open(t)
          \/ OpenDone(t)
          \/ Close(t)
          \/ ClosePort(t, FALSE)
          \/ CloseFinish(t)
          \/ CloseWait(t)
          \/ SyncStep(t)
          \/ ResetSynchronousBuffer(t)
    \/ \E r \in Readers : ReadEnter(r) \/ ReadCancel(r) \/ ReaderFail(r)
    \/ \E p \in {<<>>, <<1>>, <<2>>} : AppendData(p)
    \/ \E a \in {x \in ReceiveArgs : ~x.allData /\ x.count = 0 /\ x.wait} :
          Receive(a)
    \/ SearchPass
    \/ SearchWake
    \/ SearchTimeout
    \/ ReceiveGet
    \/ ReceiveDecode

SpecDrain == InitBuf /\ [][NextDrain]_vars

\* C36: the synchronous buffer is shortened only by a matching Receive: a
\* step that changes the buffer either appends a non-empty chunk to it or
\* is the Get of a Receive whose search matched, which leaves a final part
\* of it; an Append of the empty chunk, a search, a timed-out or invalid
\* Receive, the release of synchronous mode, ResetSynchronousBuffer(),
\* Close() and Open() leave it as it is.
C36_DrainedOnlyByReceive ==
    [][received' # received
       => \/ /\ Len(received') > Len(received)
             /\ IsPrefix(received, received')
          \/ /\ rcv.pc = "search" /\ rcv'.pc = "decode"
             /\ ~NoMatch(srch.result)
             /\ received' = Rest(received, Len(received) - Len(received'))]_vars

\* A Receive matched the buffered bytes on a transport whose connection
\* was opened and closed and whose synchronous mode is released.
C36_Witness ==
    /\ rcv.pc = "done" /\ rcv.matched
    /\ rcv.before = <<1, 2>>
    /\ rcv.reply = <<1, 2>>
    /\ call.op = "Close" /\ call.ret = "nil" /\ call.wasOpen
    /\ ~synchronous

\* C37: a Receive with all-data set that matched returns as reply the
\* entire content the buffer had at its Get and leaves the buffer empty;
\* with all-data set and neither terminator nor count it does not wait and
\* returns matched, on an empty buffer with an empty reply.
C37_AllDataDrains ==
    /\ (rcv.pc = "done" /\ rcv.matched /\ rcv.allData)
       => /\ rcv.reply = taken.g2.before
          /\ rcv.after = <<>>
    /\ (rcv.allData /\ ~rcv.hasEop /\ rcv.count = 0)
       => /\ rcv.pc = "search" => srch.pc # "wait"
          /\ rcv.pc = "done" => rcv.matched /\ rcv.err = "none"

\* C38: the bytes of the slice the last Get returned stay what Get
\* returned, whatever Append and Get ran on the buffer since.
C38_GetResultStable ==
    taken.gets >= 1
    => taken.g2.ret =
         IF taken.g2.count = -1 \/ taken.g2.count = Len(taken.g2.before)
         THEN taken.g2.before
         ELSE First(taken.g2.before, taken.g2.count)

\* ------------------------------------------- handlers that call back
\* The handler Open() or Close() called last (statef, trace, with
\* lock = false: the caller still holds g.mu) calls a method of the
\* transport that takes g.mu: the goroutine is inside the handler, in
\* g.mu.Lock() or g.mu.RLock().
HandlerCalls(t) ==
    /\ tpc[t] \in {"open_port", "close_port", "close_wait"}
    /\ call.by = t
    /\ call.ev # {}
    /\ tpc' = [tpc EXCEPT ![t] =
                 [open_port |-> "open_cb", close_port |-> "close_cb",
                  close_wait |-> "closed_cb"][@]]
    /\ UNCHANGED <<portVars, mu, wg, synchronous, bracket, dataVars,
                   readerVars, setupVars, countVars, regVars, syncVars,
                   stream, call, lastSet, stateSeq>>

\* receivef(true, data): the handler is read under the read lock, the lock
\* is released and the handler is called; the handler calls a method of
\* the transport that takes g.mu.
ReceivefCalls(r) ==
    /\ rpc[r] = "recv"
    /\ mu = "free"
    /\ "recv" \in handlers
    /\ rxLog' = rxLog \o rres[r].data
    /\ stream' = [stream EXCEPT !.out = @ \o rres[r].data]
    /\ routed' = [routed EXCEPT ![r].dest = @ \cup {"handler"}]
    /\ reg' = Synced(r)
    /\ disp' = Dispatch("recv", reg.cur["recv"])
    /\ rpc' = [rpc EXCEPT ![r] = "recv_cb"]
    /\ UNCHANGED <<portVars, mu, wg, synchronous, bracket, received,
                   receivedSize, bytesReceived, rxUsed, rres, readerErr,
                   setupVars, countVars, syncVars, threadVars>>

\* The method m the handler called on the goroutine g goes on.
\* IsSynchronous (as GetSynchronous, the SetOn setters, Open, Close):
\* g.mu.Lock() returns when no goroutine holds g.mu; IsSynchronous then
\* unlocks and the handler returns to its caller.  Close() called by the
\* receive handler on the reader: Lock; g.stop is not closed, the default
\* branch traces, calls statef and g.s.close(); g.wg.Wait() returns when the
\* counter is zero, then the deferred Unlock runs and the handler returns.
HandlerStep(g, m) ==
    IF g \in Threads
    THEN /\ m = "IsSynchronous"
         /\ tpc[g] \in {"open_cb", "close_cb", "closed_cb"}
         /\ mu = "free"
         /\ tpc' = [tpc EXCEPT ![g] =
                      [open_cb |-> "open_port", close_cb |-> "close_port",
                       closed_cb |-> "close_wait"][@]]
         /\ UNCHANGED <<portVars, mu, wg, synchronous, bracket, dataVars,
                        readerVars, setupVars, countVars, regVars, syncVars,
                        stream, call, lastSet, stateSeq>>
    ELSE IF rpc[g] = "cb_wait"
    THEN /\ m = "Close"
         /\ ReadersJoined
         /\ mu' = "free"
         /\ call' = [call EXCEPT !.ret = "nil"]
         /\ rpc' = [rpc EXCEPT ![g] = "read"]
         /\ rres' = [rres EXCEPT ![g] = NoResult]
         /\ UNCHANGED <<portVars, wg, synchronous, bracket, dataVars, routed,
                        readerErr, setupVars, countVars, regVars, syncVars,
                        stream, tpc, lastSet, stateSeq>>
    ELSE /\ rpc[g] = "recv_cb"
         /\ mu = "free"
         /\ IF m = "Close"
            THEN LET p == IF platform = "windows" THEN WindowsClose(s)
                          ELSE PortClose(platform, s)
                     closing == IF IsOpen(s)
                                THEN Deliver(stateSeq, "Closing")
                                ELSE stateSeq
                 IN /\ mu' = g
                    /\ s' = p
                    /\ os' = Minus(os, Minus(Released(s), Released(p)))
                    /\ stateSeq' = Deliver(closing, "Closed")
                    /\ call' = [NoCall EXCEPT
                                  !.op = "Close", !.by = g,
                                  !.wasOpen = IsOpen(s), !.readers = wg,
                                  !.ret = "pending",
                                  !.ev = (IF IsOpen(s)
                                          THEN TraceEv("Info", "closing_connection")
                                               \cup StateEv("Closing")
                                          ELSE {})
                                         \cup TraceEv("Info", "connection_closed")
                                         \cup StateEv("Closed")]
                    /\ rpc' = [rpc EXCEPT ![g] = "cb_wait"]
                    /\ UNCHANGED rres
            ELSE /\ rpc' = [rpc EXCEPT ![g] = "read"]
                 /\ rres' = [rres EXCEPT ![g] = NoResult]
                 /\ UNCHANGED <<portVars, mu, call, stateSeq>>
         /\ UNCHANGED <<wg, synchronous, bracket, dataVars, routed,
                        readerErr, setupVars, countVars, regVars, syncVars,
                        stream, tpc, lastSet>>

\* The life cycle on a device that delivers data, with handlers that call
\* back into the transport.
NextCb ==
    \/ \E t \in Threads : LifeStep(t)
    \/ \E t \in Threads : SyncStep(t)
    \/ \E t \in Threads : HandlerCalls(t)
    \/ \E r \in Readers : ReadStep(r)
    \/ \E r \in Readers : DataStep(r)
    \/ \E r \in Readers : ReceivefCalls(r)
    \/ \E g \in Threads \cup Readers, m \in {"IsSynchronous", "Close"} :
          HandlerStep(g, m)

SpecCb == InitRead /\ [][NextCb]_vars

\* C39: a handler that called back into the transport returns: while a
\* goroutine is inside a handler, in a lock-taking method the handler
\* called, the program is never in a state in which no goroutine can take
\* a step.
C39_HandlerReturns ==
    (\/ \E t \in Threads : tpc[t] \in {"open_cb", "close_cb", "closed_cb"}
     \/ \E r \in Readers : rpc[r] \in {"recv_cb", "cb_wait"})
    => ENABLED NextCb

\* C40: the Open/Close cycle is repeatable.  An Open() that found the port
\* closed and no reader running (as after every completed Close()) can
\* succeed on a working device; when it succeeds the port is open and
\* exactly one reader runs; and a reader ends only on a device error or
\* after the port was closed, so the new reader reads and delivers until
\* then.
C40_CycleRepeatable ==
    [][/\ \A t \in Threads :
            (tpc[t] = "open_port" /\ wg = 0) => ENABLED OpenDone(t)
       /\ \A t \in Threads :
            (/\ tpc[t] = "open_port" /\ tpc'[t] = "idle"
             /\ call'.ret = "nil" /\ wg = 0)
            => /\ IsOpen(s')
               /\ wg' = 1
               /\ Cardinality({r \in Readers : rpc'[r] # "none"}) = 1
               /\ \E r \in Readers : rpc[r] = "none" /\ rpc'[r] = "read"
       /\ \A r \in Readers :
            (rpc[r] # "none" /\ rpc'[r] = "none")
            => \/ rres[r].err \in {"device", "bytes_to_read"}
               \/ ~IsOpen(s)]_vars

\* On linux a reader ended on a device error and Close() closed the port;
\* the Open() made then succeeded and started the one reader that runs,
\* and that reader passed a chunk to the receive handler.
C40_Witness ==
    /\ platform = "linux"
    /\ readerErr = "device"
    /\ call.op = "Open"
    /\ call.ret = "nil"
    /\ ~call.wasOpen
    /\ call.readers = 0
    /\ call.spawned = 1
    /\ IsOpen(s)
    /\ wg = 1
    /\ disp.kind = "recv"
    /\ disp.h # "nil"
    /\ rxLog # <<>>

====
